---- MODULE Spec2Model ----
(***************************************************************************)
(* Dispatch-and-score engine of the multi-agent customer-service           *)
(* evaluator: the keyword router (agents/router_agent.py), the five        *)
(* rule-based responders (agents/sub_agents.py), the conversation runner   *)
(* (main.py), the customer simulator (simulator/customer_simulator.py)     *)
(* and the metrics calculator (evaluation/metrics.py).                     *)
(*                                                                         *)
(* A Python str is a sequence of one-character strings, so that lower(),   *)
(* the `in' substring test, re.findall and f-string formatting are         *)
(* computed character by character.  Agent ids, categories, languages and  *)
(* tool-call action names are only ever compared for equality by the code  *)
(* and are TLA+ strings.  Wall-clock readings (routing_time, timestamp,    *)
(* router_latency, overall_latency) are not part of the model.             *)
(***************************************************************************)
EXTENDS Integers, Sequences, FiniteSets, TLC

VARIABLES
    routing_history,    \* RouterAgent.routing_history
    response_history,   \* agent id -> BaseSubAgent.response_history of that responder
    eval_logs,          \* MultiAgentEvaluator.conversation_logs
    conversation_logs,  \* MetricsCalculator.conversation_logs
    required_metrics,   \* MetricsCalculator.required_metrics (<<>> is the empty dict)
    pc,                 \* where run_evaluation stands: "loop" (between two conversations),
                        \* "turns" (in the turns loop of a conversation), "done", "crashed"
    scenario_type,      \* local of _run_single_conversation
    conversation,       \* local of _run_single_conversation: the generated turns
    turns,              \* local of _run_single_conversation: the turn logs so far
    num_conversations,  \* the argument of run_evaluation
    conv_i,             \* the loop variable i of run_evaluation: conversations run so far
    error,              \* "none", or the exception that was raised
    turn_log,           \* the record returned by the last direct _process_turn call
    message,            \* the message handed to the single route call of SpecRoute
    selected,           \* what that call returned ("" before the call)
    calls,              \* history variable: the route and respond calls made so far, in
                        \* order, each with its argument and what it returned
    scored,             \* history variable: how many conversation logs the last
                        \* calculate_all_metrics call saw (-1 before the first call)
    creative_metrics,   \* MetricsCalculator.creative_metrics (<<>> is the empty dict)
    report,             \* what the last calculate_all_metrics call returned (<<>> before
                        \* the first call and when the call raised)
    policy_version,     \* the policy configuration in force, "v0" (baseline) or "v1"
                        \* (improved); no code of the repository reads it
    llm_reply           \* what the last LLMClient.call_llm call returned (<<>> before the
                        \* first call and when the call raised)

vars == <<routing_history, response_history, eval_logs, conversation_logs, required_metrics,
          pc, scenario_type, conversation, turns, num_conversations, conv_i, error, turn_log,
          message, selected, calls, scored, creative_metrics, report, policy_version,
          llm_reply>>

(***************************************************************************)
(* Bounds                                                                  *)
(***************************************************************************)
\* number of fragments a routed message of SpecRoute is built from
MaxParts == 2
\* number of direct calls (route, respond, _process_turn) in SpecAPI
MaxCalls == 2
\* largest num_conversations handed to run_evaluation in Spec
MaxConversations == 1
\* number of add_conversation_log calls in SpecMetrics
MaxBatch == 2
\* number of turns, over all its conversations, of a batch of SpecMetrics
MaxTurns == 2

(***************************************************************************)
(* Strings                                                                 *)
(***************************************************************************)
UpperLetters == <<"A","B","C","D","E","F","G","H","I","J","K","L","M","N","O","P","Q","R","S","T","U","V","W","X","Y","Z">>
LowerLetters == <<"a","b","c","d","e","f","g","h","i","j","k","l","m","n","o","p","q","r","s","t","u","v","w","x","y","z">>

\* str.lower() and str.upper() on the ASCII letters
LowerOf == [c \in {UpperLetters[i] : i \in 1..26} |->
               LowerLetters[CHOOSE i \in 1..26 : UpperLetters[i] = c]]
UpperOf == [c \in {LowerLetters[i] : i \in 1..26} |->
               UpperLetters[CHOOSE i \in 1..26 : LowerLetters[i] = c]]

lower_char(c) == IF c \in DOMAIN LowerOf THEN LowerOf[c] ELSE c
upper_char(c) == IF c \in DOMAIN UpperOf THEN UpperOf[c] ELSE c

\* str.lower() and str.upper(), character by character
lower(s) == <<>> \o [i \in 1..Len(s) |-> lower_char(s[i])]
upper(s) == <<>> \o [i \in 1..Len(s) |-> upper_char(s[i])]

\* Python `w in s' on two strings
Contains(s, w) ==
    \E i \in 0..(Len(s) - Len(w)) : \A j \in 1..Len(w) : s[i + j] = w[j]

\* any(word in s for word in words)
any_word_in(words, s) == \E k \in 1..Len(words) : Contains(s, words[k])

(***************************************************************************)
(* RouterAgent                                                             *)
(***************************************************************************)
available_agents ==
    <<"SearchAgent", "PolicyAgent", "ComplaintAgent", "BookingAgent", "CloserAgent">>

AgentIds == {available_agents[i] : i \in 1..Len(available_agents)}

CloserKeywords ==
    << <<"b","y","e">>, <<"g","o","o","d","b","y","e">>, <<"e","n","d">>, <<"c","l","o","s","e">>, <<"f","i","n","i","s","h">> >>
SearchKeywords ==
    << <<"s","e","a","r","c","h">>, <<"f","i","n","d">>, <<"f","l","i","g","h","t">>, <<"r","e","f","u","n","d"," ","s","t","a","t","u","s">>, <<"b","o","o","k","i","n","g"," ","i","d">> >>
PolicyKeywords ==
    << <<"p","o","l","i","c","y">>, <<"b","a","g","g","a","g","e">>, <<"a","l","l","o","w","a","n","c","e">>, <<"r","e","f","u","n","d"," ","p","o","l","i","c","y">> >>
ComplaintKeywords ==
    << <<"c","o","m","p","l","a","i","n","t">>, <<"d","a","m","a","g","e">>, <<"p","r","o","b","l","e","m">>, <<"i","s","s","u","e">> >>
\* rule 5 without its first keyword
BookingKeywords_without_booking ==
    << <<"p","a","s","s","e","n","g","e","r">>, <<"d","e","t","a","i","l","s">>, <<"c","o","n","f","i","r","m">> >>
BookingKeywords ==
    << <<"b","o","o","k","i","n","g">>, <<"p","a","s","s","e","n","g","e","r">>, <<"d","e","t","a","i","l","s">>, <<"c","o","n","f","i","r","m">> >>

\* the ladder with the Search rule tested before the Closer rule
_route_v0_search_first(msg) ==
    LET message_lower == lower(msg) IN
    IF any_word_in(SearchKeywords, message_lower) THEN "SearchAgent"
    ELSE IF any_word_in(CloserKeywords, message_lower) THEN "CloserAgent"
    ELSE IF any_word_in(PolicyKeywords, message_lower) THEN "PolicyAgent"
    ELSE IF any_word_in(ComplaintKeywords, message_lower) THEN "ComplaintAgent"
    ELSE IF any_word_in(BookingKeywords, message_lower) THEN "BookingAgent"
    ELSE "SearchAgent"

\* the ladder with another default
_route_v0_default_booking(msg) ==
    LET message_lower == lower(msg) IN
    IF any_word_in(CloserKeywords, message_lower) THEN "CloserAgent"
    ELSE IF any_word_in(SearchKeywords, message_lower) THEN "SearchAgent"
    ELSE IF any_word_in(PolicyKeywords, message_lower) THEN "PolicyAgent"
    ELSE IF any_word_in(ComplaintKeywords, message_lower) THEN "ComplaintAgent"
    ELSE "BookingAgent"

\* the ladder matching on the message as given, without lower()
_route_v0_case_sensitive(msg) ==
    IF any_word_in(CloserKeywords, msg) THEN "CloserAgent"
    ELSE IF any_word_in(SearchKeywords, msg) THEN "SearchAgent"
    ELSE IF any_word_in(PolicyKeywords, msg) THEN "PolicyAgent"
    ELSE IF any_word_in(ComplaintKeywords, msg) THEN "ComplaintAgent"
    ELSE IF any_word_in(BookingKeywords, msg) THEN "BookingAgent"
    ELSE "SearchAgent"

_route_v0(msg) ==
    LET message_lower == lower(msg) IN
    IF any_word_in(CloserKeywords, message_lower) THEN "CloserAgent"
    ELSE IF any_word_in(SearchKeywords, message_lower) THEN "SearchAgent"
    ELSE IF any_word_in(PolicyKeywords, message_lower) THEN "PolicyAgent"
    ELSE IF any_word_in(ComplaintKeywords, message_lower) THEN "ComplaintAgent"
    ELSE IF any_word_in(BookingKeywords, message_lower) THEN "BookingAgent"
    ELSE "SearchAgent"

\* the entry with the lower-cased message in place of the message
route_entry_lowered(customer_message) ==
    [message |-> lower(customer_message), selected_agent |-> _route_v0(customer_message)]

\* the entry RouterAgent.route appends to routing_history
route_entry(customer_message) ==
    [message |-> customer_message, selected_agent |-> _route_v0(customer_message)]

(***************************************************************************)
(* Messages                                                                *)
(***************************************************************************)
\* text fragments the routed messages of SpecRoute are concatenated from
Fragments ==
    { <<"b","y","e">>, <<"G","o","o","d","b","y","e">>, <<"E","N","D">>, <<"C","l","o","s","e">>, <<"f","i","n","i","s","h">>,
      <<"s","e","a","r","c","h">>, <<"F","i","n","d">>, <<"F","L","I","G","H","T">>, <<"r","e","f","u","n","d"," ","s","t","a","t","u","s">>, <<"B","o","o","k","i","n","g"," ","I","D">>,
      <<"p","o","l","i","c","y">>, <<"B","a","g","g","a","g","e">>, <<"a","l","l","o","w","a","n","c","e">>, <<"r","e","f","u","n","d"," ","p","o","l","i","c","y">>,
      <<"c","o","m","p","l","a","i","n","t">>, <<"D","A","M","A","G","E">>, <<"p","r","o","b","l","e","m">>, <<"I","s","s","u","e">>,
      <<"b","o","o","k","i","n","g">>, <<"P","a","s","s","e","n","g","e","r">>, <<"d","e","t","a","i","l","s">>, <<"C","O","N","F","I","R","M">>,
      <<" ">>, <<"f","r","i">>, <<"l","u","g","g","a","g","e">>, <<"h","e","l","l","o">>, <<" ","7","8","9">>, <<"r","e","f","u","n","d">> }

RECURSIVE Concats(_)
Concats(n) ==
    IF n = 0 THEN {<<>>}
    ELSE LET P == Concats(n - 1) IN P \cup {p \o f : p \in P, f \in Fragments}

\* customer_simulator.py: conversation_scenarios
refund_status_messages ==
    << <<"C","h","e","c","k"," ","m","y"," ","r","e","f","u","n","d"," ","s","t","a","t","u","s"," ","f","o","r"," ","b","o","o","k","i","n","g"," ","I","D"," ","4","5","6">>,
       <<"W","h","e","n"," ","w","i","l","l"," ","I"," ","g","e","t"," ","m","y"," ","r","e","f","u","n","d","?">>,
       <<"I"," ","n","e","e","d"," ","t","o"," ","k","n","o","w"," ","a","b","o","u","t"," ","m","y"," ","r","e","f","u","n","d"," ","f","o","r"," ","b","o","o","k","i","n","g"," ","7","8","9">> >>
refund_policy_messages ==
    << <<"W","h","a","t"," ","i","s"," ","y","o","u","r"," ","r","e","f","u","n","d"," ","p","o","l","i","c","y","?">>,
       <<"C","a","n"," ","I"," ","g","e","t"," ","a"," ","r","e","f","u","n","d"," ","f","o","r"," ","m","y"," ","f","l","i","g","h","t","?">>,
       <<"W","h","a","t"," ","a","r","e"," ","t","h","e"," ","r","e","f","u","n","d"," ","t","e","r","m","s"," ","a","n","d"," ","c","o","n","d","i","t","i","o","n","s","?">> >>
flight_search_messages ==
    << <<"F","i","n","d"," ","m","e"," ","a"," ","f","l","i","g","h","t"," ","f","r","o","m"," ","B","L","R"," ","t","o"," ","D","E","L"," ","o","n"," ","S","e","p","t","e","m","b","e","r"," ","1","5">>,
       <<"I"," ","n","e","e","d"," ","f","l","i","g","h","t","s"," ","f","r","o","m"," ","M","u","m","b","a","i"," ","t","o"," ","B","a","n","g","a","l","o","r","e"," ","t","o","m","o","r","r","o","w">>,
       <<"S","e","a","r","c","h"," ","f","o","r"," ","f","l","i","g","h","t","s"," ","t","o"," ","N","e","w"," ","Y","o","r","k"," ","n","e","x","t"," ","w","e","e","k">> >>
baggage_policy_messages ==
    << <<"W","h","a","t"," ","i","s"," ","t","h","e"," ","b","a","g","g","a","g","e"," ","a","l","l","o","w","a","n","c","e"," ","f","o","r"," ","d","o","m","e","s","t","i","c"," ","f","l","i","g","h","t","s","?">>,
       <<"H","o","w"," ","m","u","c","h"," ","l","u","g","g","a","g","e"," ","c","a","n"," ","I"," ","c","a","r","r","y","?">>,
       <<"W","h","a","t"," ","a","r","e"," ","t","h","e"," ","b","a","g","g","a","g","e"," ","r","u","l","e","s"," ","f","o","r"," ","i","n","t","e","r","n","a","t","i","o","n","a","l"," ","f","l","i","g","h","t","s","?">> >>
complaint_messages ==
    << <<"M","y"," ","l","u","g","g","a","g","e"," ","w","a","s"," ","d","a","m","a","g","e","d"," ","d","u","r","i","n","g"," ","t","h","e"," ","f","l","i","g","h","t">>,
       <<"I"," ","h","a","v","e"," ","a"," ","c","o","m","p","l","a","i","n","t"," ","a","b","o","u","t"," ","t","h","e"," ","s","e","r","v","i","c","e">>,
       <<"T","h","e"," ","s","t","a","f","f"," ","w","a","s"," ","v","e","r","y"," ","r","u","d","e"," ","t","o"," ","m","e">> >>
booking_details_messages ==
    << <<"C","a","n"," ","y","o","u"," ","c","o","n","f","i","r","m"," ","m","y"," ","b","o","o","k","i","n","g"," ","d","e","t","a","i","l","s","?">>,
       <<"I"," ","n","e","e","d"," ","t","o"," ","u","p","d","a","t","e"," ","m","y"," ","p","a","s","s","e","n","g","e","r"," ","i","n","f","o","r","m","a","t","i","o","n">>,
       <<"W","h","a","t"," ","a","r","e"," ","t","h","e"," ","d","e","t","a","i","l","s"," ","f","o","r"," ","b","o","o","k","i","n","g"," ","1","2","3","4","5","?">> >>
mixed_messages ==
    << <<"I"," ","w","a","n","t"," ","t","o"," ","b","o","o","k"," ","a"," ","f","l","i","g","h","t"," ","a","n","d"," ","a","l","s","o"," ","c","h","e","c","k"," ","m","y"," ","r","e","f","u","n","d"," ","s","t","a","t","u","s">>,
       <<"W","h","a","t","'","s"," ","t","h","e"," ","b","a","g","g","a","g","e"," ","p","o","l","i","c","y"," ","a","n","d"," ","c","a","n"," ","I"," ","g","e","t"," ","a"," ","r","e","f","u","n","d","?">>,
       <<"I"," ","h","a","v","e"," ","a"," ","c","o","m","p","l","a","i","n","t"," ","a","n","d"," ","n","e","e","d"," ","t","o"," ","s","e","a","r","c","h"," ","f","o","r"," ","f","l","i","g","h","t","s">> >>

conversation_scenarios ==
    << [category |-> "refund_status",   messages |-> refund_status_messages],
       [category |-> "refund_policy",   messages |-> refund_policy_messages],
       [category |-> "flight_search",   messages |-> flight_search_messages],
       [category |-> "baggage_policy",  messages |-> baggage_policy_messages],
       [category |-> "complaint",       messages |-> complaint_messages],
       [category |-> "booking_details", messages |-> booking_details_messages],
       [category |-> "mixed",           messages |-> mixed_messages] >>

SimulatorMessages ==
    {conversation_scenarios[i].messages[j] :
        i \in 1..Len(conversation_scenarios), j \in 1..3}

\* the messages of SpecRoute
RouteInputs == Concats(MaxParts) \cup SimulatorMessages

(***************************************************************************)
(* Responders (agents/sub_agents.py)                                       *)
(***************************************************************************)
Digits == <<"0","1","2","3","4","5","6","7","8","9">>

IsDigit(c) == \E d \in 1..10 : Digits[d] = c
DigitValue(c) == (CHOOSE d \in 1..10 : Digits[d] = c) - 1

\* int() of a string of decimal digits
RECURSIVE int_of(_)
int_of(ds) ==
    IF Len(ds) = 0 THEN 0
    ELSE 10 * int_of(SubSeq(ds, 1, Len(ds) - 1)) + DigitValue(ds[Len(ds)])

\* str() of a natural number, as the f-string formats it
RECURSIVE str_of(_)
str_of(n) ==
    IF n < 10 THEN <<Digits[n + 1]>>
    ELSE Append(str_of(n \div 10), Digits[(n % 10) + 1])

\* re.findall(r'\d+', s)[0]: the first maximal run of digits of s (<<>> when s has no digit)
first_digit_run(s) ==
    IF \A i \in 1..Len(s) : ~IsDigit(s[i]) THEN <<>>
    ELSE LET b == CHOOSE i \in 1..Len(s) :
                     IsDigit(s[i]) /\ \A k \in 1..(i - 1) : ~IsDigit(s[k])
             e == CHOOSE i \in b..Len(s) :
                     /\ \A k \in b..i : IsDigit(s[k])
                     /\ (i = Len(s) \/ ~IsDigit(s[i + 1]))
         IN SubSeq(s, b, e)

\* SearchAgent._extract_booking_id and PolicyAgent._extract_booking_id
_extract_booking_id(msg) ==
    LET numbers0 == first_digit_run(msg) IN
    IF numbers0 # <<>> THEN int_of(numbers0) ELSE 12345

\* SearchAgent.respond whose branches are separate ifs, each adding its call
SearchAgent_respond_fallthrough(msg) ==
    LET message_lower == lower(msg)
        status == Contains(message_lower, <<"r","e","f","u","n","d"," ","s","t","a","t","u","s">>)
                      \/ Contains(message_lower, <<"b","o","o","k","i","n","g"," ","i","d">>)
        search == any_word_in(<< <<"s","e","a","r","c","h">>, <<"f","i","n","d">>, <<"f","l","i","g","h","t">> >>, message_lower)
        booking_id == _extract_booking_id(msg)
    IN  [response |->
            IF search THEN <<"I","'","l","l"," ","s","e","a","r","c","h"," ","f","o","r"," ","f","l","i","g","h","t","s"," ","w","i","t","h"," ","t","h","e"," ","d","e","f","a","u","l","t"," ","p","a","r","a","m","e","t","e","r","s",".">>
            ELSE IF status
            THEN <<"I","'","l","l"," ","c","h","e","c","k"," ","t","h","e"," ","r","e","f","u","n","d"," ","s","t","a","t","u","s"," ","f","o","r"," ","b","o","o","k","i","n","g"," ","I","D"," ">> \o str_of(booking_id) \o <<".">>
            ELSE <<"I"," ","c","a","n"," ","h","e","l","p"," ","y","o","u"," ","w","i","t","h"," ","f","l","i","g","h","t"," ","s","e","a","r","c","h","e","s"," ","a","n","d"," ","r","e","f","u","n","d"," ","s","t","a","t","u","s","."," ","W","h","a","t"," ","w","o","u","l","d"," ","y","o","u"," ","l","i","k","e"," ","t","o"," ","k","n","o","w","?">>,
         tool_calls |->
            (IF status
             THEN <<[action |-> "refund_status", params |-> [booking_id |-> booking_id]]>>
             ELSE <<>>)
            \o (IF search
                THEN <<[action |-> "search_flights",
                        params |-> [origin |-> "BLR", destination |-> "DEL",
                                    date |-> "today", class |-> "economy"]]>>
                ELSE <<>>)]

SearchAgent_respond(msg) ==
    LET message_lower == lower(msg) IN
    IF Contains(message_lower, <<"r","e","f","u","n","d"," ","s","t","a","t","u","s">>) \/ Contains(message_lower, <<"b","o","o","k","i","n","g"," ","i","d">>)
    THEN LET booking_id == _extract_booking_id(msg) IN
         [response |-> <<"I","'","l","l"," ","c","h","e","c","k"," ","t","h","e"," ","r","e","f","u","n","d"," ","s","t","a","t","u","s"," ","f","o","r"," ","b","o","o","k","i","n","g"," ","I","D"," ">> \o str_of(booking_id) \o <<".">>,
          tool_calls |-> <<[action |-> "refund_status", params |-> [booking_id |-> booking_id]]>>]
    ELSE IF any_word_in(<< <<"s","e","a","r","c","h">>, <<"f","i","n","d">>, <<"f","l","i","g","h","t">> >>, message_lower)
    THEN [response |-> <<"I","'","l","l"," ","s","e","a","r","c","h"," ","f","o","r"," ","f","l","i","g","h","t","s"," ","w","i","t","h"," ","t","h","e"," ","d","e","f","a","u","l","t"," ","p","a","r","a","m","e","t","e","r","s",".">>,
          tool_calls |-> <<[action |-> "search_flights",
                            params |-> [origin |-> "BLR", destination |-> "DEL",
                                        date |-> "today", class |-> "economy"]]>>]
    ELSE IF Contains(message_lower, <<"r","e","f","u","n","d"," ","p","o","l","i","c","y">>)
    THEN [response |-> <<"R","e","f","u","n","d","s"," ","a","r","e"," ","p","r","o","c","e","s","s","e","d"," ","w","i","t","h","i","n"," ","5","-","7"," ","b","u","s","i","n","e","s","s"," ","d","a","y","s","."," ","(","S","e","a","r","c","h","A","g","e","n","t"," ","h","a","n","d","l","i","n","g"," ","p","o","l","i","c","y"," ","q","u","e","r","y",")">>,
          tool_calls |-> <<>>]
    ELSE [response |-> <<"I"," ","c","a","n"," ","h","e","l","p"," ","y","o","u"," ","w","i","t","h"," ","f","l","i","g","h","t"," ","s","e","a","r","c","h","e","s"," ","a","n","d"," ","r","e","f","u","n","d"," ","s","t","a","t","u","s","."," ","W","h","a","t"," ","w","o","u","l","d"," ","y","o","u"," ","l","i","k","e"," ","t","o"," ","k","n","o","w","?">>,
          tool_calls |-> <<>>]

\* PolicyAgent.respond that checks the refund status of the placeholder booking
PolicyAgent_respond_placeholder(msg) ==
    LET message_lower == lower(msg) IN
    IF Contains(message_lower, <<"b","a","g","g","a","g","e">>) \/ Contains(message_lower, <<"a","l","l","o","w","a","n","c","e">>)
    THEN [response |-> <<"D","o","m","e","s","t","i","c"," ","f","l","i","g","h","t","s"," ","a","l","l","o","w"," ","1","5","k","g"," ","c","h","e","c","k","-","i","n"," ","a","n","d"," ","7","k","g"," ","c","a","b","i","n"," ","b","a","g","g","a","g","e","."," ","I","n","t","e","r","n","a","t","i","o","n","a","l"," ","f","l","i","g","h","t","s"," ","a","l","l","o","w"," ","2","3","k","g"," ","c","h","e","c","k","-","i","n"," ","a","n","d"," ","7","k","g"," ","c","a","b","i","n"," ","b","a","g","g","a","g","e",".">>,
          tool_calls |-> <<>>]
    ELSE IF Contains(message_lower, <<"r","e","f","u","n","d"," ","p","o","l","i","c","y">>)
    THEN [response |-> <<"R","e","f","u","n","d","s"," ","a","r","e"," ","p","r","o","c","e","s","s","e","d"," ","w","i","t","h","i","n"," ","5","-","7"," ","b","u","s","i","n","e","s","s"," ","d","a","y","s","."," ","P","r","o","c","e","s","s","i","n","g"," ","f","e","e","s"," ","m","a","y"," ","a","p","p","l","y",".">>,
          tool_calls |-> <<>>]
    ELSE IF Contains(message_lower, <<"r","e","f","u","n","d"," ","s","t","a","t","u","s">>)
    THEN [response |-> <<"I","'","l","l"," ","c","h","e","c","k"," ","t","h","e"," ","r","e","f","u","n","d"," ","s","t","a","t","u","s"," ","f","o","r"," ","b","o","o","k","i","n","g"," ","I","D"," ","1","2","3","4","5","."," ","(","P","o","l","i","c","y","A","g","e","n","t"," ","a","l","s","o"," ","h","a","n","d","l","i","n","g"," ","t","h","i","s",")">>,
          tool_calls |-> <<[action |-> "refund_status", params |-> [booking_id |-> 12345]]>>]
    ELSE IF Contains(message_lower, <<"b","o","o","k","i","n","g">>)
    THEN [response |-> <<"I","'","l","l"," ","c","h","e","c","k"," ","y","o","u","r"," ","b","o","o","k","i","n","g"," ","d","e","t","a","i","l","s"," ","d","i","r","e","c","t","l","y",".">>,
          tool_calls |-> <<[action |-> "check_booking", params |-> [booking_id |-> 12345]]>>]
    ELSE [response |-> <<"I"," ","c","a","n"," ","h","e","l","p"," ","y","o","u"," ","w","i","t","h"," ","p","o","l","i","c","i","e","s"," ","a","n","d"," ","r","e","f","u","n","d"," ","i","n","f","o","r","m","a","t","i","o","n","."," ","W","h","a","t"," ","w","o","u","l","d"," ","y","o","u"," ","l","i","k","e"," ","t","o"," ","k","n","o","w","?">>,
          tool_calls |-> <<>>]

PolicyAgent_respond(msg) ==
    LET message_lower == lower(msg) IN
    IF Contains(message_lower, <<"b","a","g","g","a","g","e">>) \/ Contains(message_lower, <<"a","l","l","o","w","a","n","c","e">>)
    THEN [response |-> <<"D","o","m","e","s","t","i","c"," ","f","l","i","g","h","t","s"," ","a","l","l","o","w"," ","1","5","k","g"," ","c","h","e","c","k","-","i","n"," ","a","n","d"," ","7","k","g"," ","c","a","b","i","n"," ","b","a","g","g","a","g","e","."," ","I","n","t","e","r","n","a","t","i","o","n","a","l"," ","f","l","i","g","h","t","s"," ","a","l","l","o","w"," ","2","3","k","g"," ","c","h","e","c","k","-","i","n"," ","a","n","d"," ","7","k","g"," ","c","a","b","i","n"," ","b","a","g","g","a","g","e",".">>,
          tool_calls |-> <<>>]
    ELSE IF Contains(message_lower, <<"r","e","f","u","n","d"," ","p","o","l","i","c","y">>)
    THEN [response |-> <<"R","e","f","u","n","d","s"," ","a","r","e"," ","p","r","o","c","e","s","s","e","d"," ","w","i","t","h","i","n"," ","5","-","7"," ","b","u","s","i","n","e","s","s"," ","d","a","y","s","."," ","P","r","o","c","e","s","s","i","n","g"," ","f","e","e","s"," ","m","a","y"," ","a","p","p","l","y",".">>,
          tool_calls |-> <<>>]
    ELSE IF Contains(message_lower, <<"r","e","f","u","n","d"," ","s","t","a","t","u","s">>)
    THEN LET booking_id == _extract_booking_id(msg) IN
         [response |-> <<"I","'","l","l"," ","c","h","e","c","k"," ","t","h","e"," ","r","e","f","u","n","d"," ","s","t","a","t","u","s"," ","f","o","r"," ","b","o","o","k","i","n","g"," ","I","D"," ">> \o str_of(booking_id)
                           \o <<"."," ","(","P","o","l","i","c","y","A","g","e","n","t"," ","a","l","s","o"," ","h","a","n","d","l","i","n","g"," ","t","h","i","s",")">>,
          tool_calls |-> <<[action |-> "refund_status", params |-> [booking_id |-> booking_id]]>>]
    ELSE IF Contains(message_lower, <<"b","o","o","k","i","n","g">>)
    THEN [response |-> <<"I","'","l","l"," ","c","h","e","c","k"," ","y","o","u","r"," ","b","o","o","k","i","n","g"," ","d","e","t","a","i","l","s"," ","d","i","r","e","c","t","l","y",".">>,
          tool_calls |-> <<[action |-> "check_booking", params |-> [booking_id |-> 12345]]>>]
    ELSE [response |-> <<"I"," ","c","a","n"," ","h","e","l","p"," ","y","o","u"," ","w","i","t","h"," ","p","o","l","i","c","i","e","s"," ","a","n","d"," ","r","e","f","u","n","d"," ","i","n","f","o","r","m","a","t","i","o","n","."," ","W","h","a","t"," ","w","o","u","l","d"," ","y","o","u"," ","l","i","k","e"," ","t","o"," ","k","n","o","w","?">>,
          tool_calls |-> <<>>]

ComplaintAgent_respond(msg) ==
    LET message_lower == lower(msg) IN
    IF Contains(message_lower, <<"d","a","m","a","g","e">>) \/ Contains(message_lower, <<"l","u","g","g","a","g","e">>)
    THEN [response |-> <<"I","'","m"," ","s","o","r","r","y"," ","t","o"," ","h","e","a","r"," ","a","b","o","u","t"," ","t","h","e"," ","l","u","g","g","a","g","e"," ","d","a","m","a","g","e","."," ","I","'","l","l"," ","f","i","l","e"," ","a"," ","c","o","m","p","l","a","i","n","t"," ","f","o","r"," ","y","o","u",".">>,
          tool_calls |-> <<[action |-> "file_complaint",
                            params |-> [type |-> "luggage_damage", description |-> msg]]>>]
    ELSE IF any_word_in(<< <<"c","o","m","p","l","a","i","n","t">>, <<"p","r","o","b","l","e","m">>, <<"i","s","s","u","e">>, <<"b","a","d">> >>, message_lower)
    THEN [response |-> <<"I"," ","u","n","d","e","r","s","t","a","n","d"," ","y","o","u","r"," ","c","o","n","c","e","r","n","."," ","I","'","l","l"," ","f","i","l","e"," ","a"," ","c","o","m","p","l","a","i","n","t"," ","a","n","d"," ","h","a","v","e"," ","s","o","m","e","o","n","e"," ","f","o","l","l","o","w"," ","u","p"," ","w","i","t","h"," ","y","o","u",".">>,
          tool_calls |-> <<[action |-> "file_complaint",
                            params |-> [type |-> "general", description |-> msg]]>>]
    ELSE IF Contains(message_lower, <<"r","e","f","u","n","d">>)
    THEN [response |-> <<"I"," ","c","a","n"," ","h","e","l","p"," ","y","o","u"," ","w","i","t","h"," ","r","e","f","u","n","d"," ","s","t","a","t","u","s","."," ","L","e","t"," ","m","e"," ","c","h","e","c","k"," ","t","h","a","t"," ","f","o","r"," ","y","o","u","."," ","(","C","o","m","p","l","a","i","n","t","A","g","e","n","t"," ","h","a","n","d","l","i","n","g"," ","r","e","f","u","n","d",")">>,
          tool_calls |-> <<>>]
    ELSE [response |-> <<"I","'","m"," ","h","e","r","e"," ","t","o"," ","h","e","l","p"," ","w","i","t","h"," ","c","o","m","p","l","a","i","n","t","s"," ","a","n","d"," ","i","s","s","u","e","s","."," ","P","l","e","a","s","e"," ","t","e","l","l"," ","m","e"," ","w","h","a","t"," ","h","a","p","p","e","n","e","d",".">>,
          tool_calls |-> <<>>]

BookingAgent_respond(msg) ==
    LET message_lower == lower(msg) IN
    IF any_word_in(<< <<"p","a","s","s","e","n","g","e","r">>, <<"d","e","t","a","i","l","s">>, <<"n","a","m","e">>, <<"c","o","n","t","a","c","t">> >>, message_lower)
    THEN [response |-> <<"I","'","l","l"," ","r","e","t","r","i","e","v","e"," ","t","h","e"," ","p","a","s","s","e","n","g","e","r"," ","d","e","t","a","i","l","s"," ","f","o","r"," ","y","o","u","r"," ","b","o","o","k","i","n","g",".">>,
          tool_calls |-> <<[action |-> "get_passenger_details", params |-> [booking_id |-> 12345]]>>]
    ELSE IF Contains(message_lower, <<"c","o","n","f","i","r","m">>) \/ Contains(message_lower, <<"c","o","n","f","i","r","m","a","t","i","o","n">>)
    THEN [response |-> <<"I","'","l","l"," ","c","o","n","f","i","r","m"," ","y","o","u","r"," ","b","o","o","k","i","n","g"," ","d","e","t","a","i","l","s",".">>,
          tool_calls |-> <<[action |-> "confirm_booking", params |-> [booking_id |-> 12345]]>>]
    ELSE IF Contains(message_lower, <<"a","v","a","i","l","a","b","l","e">>) \/ Contains(message_lower, <<"a","v","a","i","l","a","b","i","l","i","t","y">>)
    THEN [response |-> <<"I","'","l","l"," ","c","h","e","c","k"," ","f","l","i","g","h","t"," ","a","v","a","i","l","a","b","i","l","i","t","y"," ","f","o","r"," ","y","o","u","."," ","(","B","o","o","k","i","n","g","A","g","e","n","t"," ","h","a","n","d","l","i","n","g"," ","a","v","a","i","l","a","b","i","l","i","t","y",")">>,
          tool_calls |-> <<[action |-> "check_availability",
                            params |-> [route |-> "BLR-DEL", date |-> "today"]]>>]
    ELSE [response |-> <<"I"," ","c","a","n"," ","h","e","l","p"," ","y","o","u"," ","w","i","t","h"," ","b","o","o","k","i","n","g"," ","d","e","t","a","i","l","s"," ","a","n","d"," ","c","o","n","f","i","r","m","a","t","i","o","n","s","."," ","W","h","a","t"," ","d","o"," ","y","o","u"," ","n","e","e","d","?">>,
          tool_calls |-> <<>>]

CloserAgent_respond(msg) ==
    [response |-> <<"<","E","N","D","_","C","A","L","L",">"," ","T","h","a","n","k"," ","y","o","u"," ","f","o","r"," ","c","o","n","t","a","c","t","i","n","g"," ","u","s","."," ","H","a","v","e"," ","a"," ","g","r","e","a","t"," ","d","a","y","!">>,
     tool_calls |-> <<>>]

\* MultiAgentEvaluator.agents: the responder registered under each id
agents ==
    [a \in {"SearchAgent", "PolicyAgent", "ComplaintAgent", "BookingAgent", "CloserAgent"} |-> a]

\* agent.respond(msg) of the responder registered under id a
respond(a, msg) ==
    CASE a = "SearchAgent"    -> SearchAgent_respond(msg)
      [] a = "PolicyAgent"    -> PolicyAgent_respond(msg)
      [] a = "ComplaintAgent" -> ComplaintAgent_respond(msg)
      [] a = "BookingAgent"   -> BookingAgent_respond(msg)
      [] a = "CloserAgent"    -> CloserAgent_respond(msg)

\* the entry BaseSubAgent.log_response appends to response_history
log_response(msg, response, tool_calls) ==
    [input_message |-> msg, response |-> response, tool_calls |-> tool_calls]

(***************************************************************************)
(* Calls on the router and the responders                                  *)
(***************************************************************************)
\* the state of the router and of the five responders
Components ==
    [routing_history |-> routing_history, response_history |-> response_history,
     calls |-> calls, error |-> error]

\* RouterAgent.route(customer_message) on the components st
route(st, customer_message) ==
    [st EXCEPT
        !.routing_history = Append(@, route_entry(customer_message)),
        !.calls = Append(@, [op |-> "route", agent |-> "RouterAgent",
                             message |-> customer_message,
                             selected_agent |-> _route_v0(customer_message),
                             response |-> <<>>, tool_calls |-> <<>>])]

\* respond with one response_history list shared by the five responders
call_respond_shared(st, a, msg) ==
    LET r == respond(a, msg) IN
    [st EXCEPT
        !.response_history =
            [b \in DOMAIN @ |-> Append(@[b], log_response(msg, r.response, r.tool_calls))],
        !.calls = Append(@, [op |-> "respond", agent |-> a, message |-> msg,
                             selected_agent |-> "",
                             response |-> r.response, tool_calls |-> r.tool_calls])]

\* self.agents[a].respond(msg) on the components st
call_respond(st, a, msg) ==
    LET r == respond(a, msg) IN
    [st EXCEPT
        !.response_history[a] = Append(@, log_response(msg, r.response, r.tool_calls)),
        !.calls = Append(@, [op |-> "respond", agent |-> a, message |-> msg,
                             selected_agent |-> "",
                             response |-> r.response, tool_calls |-> r.tool_calls])]

\* the record _process_turn returns
turn_record(conv_id, turn_data, routed_agent, r) ==
    [conversation_id |-> conv_id,
     turn_id |-> turn_data.turn_id,
     customer_message |-> turn_data.message,
     category |-> turn_data.category,
     routed_agent |-> routed_agent,
     agent_response |-> r.response,
     tool_calls |-> r.tool_calls]

\* _process_turn that records the router's choice but lets SearchAgent reply
_process_turn_search_replies(st, conv_id, turn_data) ==
    LET routed_agent == _route_v0(turn_data.message)
        st1 == route(st, turn_data.message)
    IN  IF routed_agent \notin DOMAIN agents
        THEN [st |-> [st1 EXCEPT !.error = "KeyError"], returned |-> <<>>]
        ELSE [st |-> call_respond(st1, agents["SearchAgent"], turn_data.message),
              returned |-> <<turn_record(conv_id, turn_data, routed_agent,
                                         respond(agents["SearchAgent"], turn_data.message))>>]

\* _process_turn that asks the responder before it records the router's choice
_process_turn_respond_first(st, conv_id, turn_data) ==
    LET routed_agent == _route_v0(turn_data.message)
        st1 == call_respond(st, agents[routed_agent], turn_data.message)
    IN  [st |-> route(st1, turn_data.message),
         returned |-> <<turn_record(conv_id, turn_data, routed_agent,
                                    respond(agents[routed_agent], turn_data.message))>>]

\* MultiAgentEvaluator._process_turn(conv_id, turn_data) on the components st:
\* the components afterwards and the returned record (none when the lookup of
\* the responder raises KeyError)
_process_turn(st, conv_id, turn_data) ==
    LET routed_agent == _route_v0(turn_data.message)
        st1 == route(st, turn_data.message)
    IN  IF routed_agent \notin DOMAIN agents
        THEN [st |-> [st1 EXCEPT !.error = "KeyError"], returned |-> <<>>]
        ELSE [st |-> call_respond(st1, agents[routed_agent], turn_data.message),
              returned |-> <<turn_record(conv_id, turn_data, routed_agent,
                                         respond(agents[routed_agent], turn_data.message))>>]

(***************************************************************************)
(* CustomerSimulator and the conversation loop of MultiAgentEvaluator      *)
(***************************************************************************)
\* random.sample(range(n), k): the sequences of k distinct positions
Samples(n, k) ==
    {f \in [1..k -> 1..n] : \A a, b \in 1..k : a # b => f[a] # f[b]}

Min(a, b) == IF a <= b THEN a ELSE b

\* the scenario generate_conversation picks for scenario_type (the first one
\* when no category matches)
scenario_of(type) ==
    IF \E s \in 1..Len(conversation_scenarios) :
           conversation_scenarios[s].category = type
    THEN conversation_scenarios[
             CHOOSE s \in 1..Len(conversation_scenarios) :
                 /\ conversation_scenarios[s].category = type
                 /\ \A q \in 1..(s - 1) : conversation_scenarios[q].category # type]
    ELSE conversation_scenarios[1]

\* generate_conversation that numbers the turns as enumerate does, from 0
generate_conversation_from_zero(type, language, sample) ==
    LET scenario == scenario_of(type) IN
    [k \in 1..Len(sample) |->
        [turn_id |-> k - 1,
         message |-> scenario.messages[sample[k]],
         category |-> scenario.category,
         language |-> language]]

\* generate_conversation(scenario_type, language), given the sample drawn
generate_conversation(type, language, sample) ==
    LET scenario == scenario_of(type) IN
    [k \in 1..Len(sample) |->
        [turn_id |-> k,
         message |-> scenario.messages[sample[k]],
         category |-> scenario.category,
         language |-> language]]

scenario_types ==
    <<"refund_status", "flight_search", "baggage_policy", "complaint", "booking_details", "mixed">>

multilingual_languages == {"spanish", "french"}

\* the log _run_single_conversation returns
conversation_log(conv_id, type, generated, turn_logs) ==
    [conversation_id |-> conv_id,
     scenario_type |-> type,
     language |-> IF Len(generated) > 0 THEN generated[1].language ELSE "english",
     turns |-> turn_logs]

(***************************************************************************)
(* MetricsCalculator (evaluation/metrics.py)                               *)
(***************************************************************************)
RECURSIVE GCD(_, _)
GCD(a, b) == IF b = 0 THEN a ELSE GCD(b, a % b)

\* the number n / d (d > 0), in lowest terms
Ratio(n, d) == [num |-> n \div GCD(n, d), den |-> d \div GCD(n, d)]

\* the ratio without the factor 100
percent_fraction(n, d) == IF d > 0 THEN Ratio(n, d) ELSE Ratio(0, 1)

\* (n / d * 100) if d > 0 else 0
percent(n, d) == IF d > 0 THEN Ratio(n * 100, d) ELSE Ratio(0, 1)

\* dict.get(key, default)
get(dict, key, default) == IF key \in DOMAIN dict THEN dict[key] ELSE default

\* the lookup with baggage_policy sent to the default
_get_expected_agent_baggage_default(msg, category) ==
    IF category = "refund_status" THEN "SearchAgent"
    ELSE IF category = "refund_policy" THEN "PolicyAgent"
    ELSE IF category = "flight_search" THEN "SearchAgent"
    ELSE IF category = "complaint" THEN "ComplaintAgent"
    ELSE IF category = "booking_details" THEN "BookingAgent"
    ELSE "SearchAgent"

\* the lookup consulting the message text before the category
_get_expected_agent_by_message(msg, category) ==
    LET message_lower == lower(msg) IN
    IF Contains(message_lower, <<"r","e","f","u","n","d">>) THEN "SearchAgent"
    ELSE IF category = "refund_status" THEN "SearchAgent"
    ELSE IF category = "refund_policy" THEN "PolicyAgent"
    ELSE IF category = "flight_search" THEN "SearchAgent"
    ELSE IF category = "baggage_policy" THEN "PolicyAgent"
    ELSE IF category = "complaint" THEN "ComplaintAgent"
    ELSE IF category = "booking_details" THEN "BookingAgent"
    ELSE "SearchAgent"

_get_expected_agent(msg, category) ==
    LET message_lower == lower(msg) IN
    IF category = "refund_status" THEN "SearchAgent"
    ELSE IF category = "refund_policy" THEN "PolicyAgent"
    ELSE IF category = "flight_search" THEN "SearchAgent"
    ELSE IF category = "baggage_policy" THEN "PolicyAgent"
    ELSE IF category = "complaint" THEN "ComplaintAgent"
    ELSE IF category = "booking_details" THEN "BookingAgent"
    ELSE "SearchAgent"

\* the check that looks for the action alone
_is_valid_tool_call_action_only(tool_call) ==
    \A field \in {"action"} : field \in DOMAIN tool_call

_is_valid_tool_call(tool_call) ==
    \A field \in {"action", "params"} : field \in DOMAIN tool_call

\* list.index(turn): the first position holding an equal record
index(all_turns, turn) ==
    CHOOSE p \in 1..Len(all_turns) :
        all_turns[p] = turn /\ \A q \in 1..(p - 1) : all_turns[q] # turn

\* _check_flow_adherence with the test on the responder inverted
_check_flow_adherence_inverted(turn, all_turns) ==
    IF turn.routed_agent # "CloserAgent"
    THEN index(all_turns, turn) = Len(all_turns)
    ELSE TRUE

_check_flow_adherence(turn, all_turns) ==
    IF turn.routed_agent = "CloserAgent"
    THEN index(all_turns, turn) = Len(all_turns)
    ELSE TRUE

\* the turns of all conversations, in the order the two nested loops visit
\* them, each with the turns list of its own conversation
RECURSIVE visited_turns(_)
visited_turns(logs) ==
    IF Len(logs) = 0 THEN <<>>
    ELSE visited_turns(SubSeq(logs, 1, Len(logs) - 1)) \o
         [k \in 1..Len(logs[Len(logs)].turns) |->
             [turn |-> logs[Len(logs)].turns[k], all_turns |-> logs[Len(logs)].turns]]

\* sum(f[k] for k in 1..n)
RECURSIVE sum_upto(_, _)
sum_upto(f, n) == IF n = 0 THEN 0 ELSE sum_upto(f, n - 1) + f[n]

\* the counters of _calculate_required_metrics when its loops end
required_counters(logs) ==
    LET v == visited_turns(logs)
        n == Len(v)
        count(P(_)) == Cardinality({k \in 1..n : P(v[k])})
        is_correct(e) ==
            e.turn.routed_agent = _get_expected_agent(e.turn.customer_message, e.turn.category)
        is_misrouted(e) == ~is_correct(e)
        is_closer(e) == e.turn.routed_agent = "CloserAgent"
        has_end_call(e) ==
            is_closer(e) /\ Contains(get(e.turn, "agent_response", <<>>), <<"<","E","N","D","_","C","A","L","L",">">>)
        violates_flow(e) == ~_check_flow_adherence(e.turn, e.all_turns)
        calls_of(e) == get(e.turn, "tool_calls", <<>>)
    IN  [total_turns |-> n,
         correct_routings |-> count(is_correct),
         misroutings |-> count(is_misrouted),
         tool_calls_total |-> sum_upto([k \in 1..n |-> Len(calls_of(v[k]))], n),
         tool_calls_correct |->
             sum_upto([k \in 1..n |->
                          Cardinality({c \in 1..Len(calls_of(v[k])) :
                                          _is_valid_tool_call(calls_of(v[k])[c])})], n),
         end_call_total |-> count(is_closer),
         end_call_correct |-> count(has_end_call),
         flow_violations |-> count(violates_flow)]

\* the dict _calculate_required_metrics stores in self.required_metrics
_calculate_required_metrics(logs) ==
    LET c == required_counters(logs) IN
    [routing_accuracy |-> percent(c.correct_routings, c.total_turns),
     misrouting_count |-> c.misroutings,
     flow_adherence |-> percent(c.total_turns - c.flow_violations, c.total_turns),
     tool_call_correctness |-> percent(c.tool_calls_correct, c.tool_calls_total),
     end_call_adherence |-> percent(c.end_call_correct, c.end_call_total)]

\* arithmetic on the numbers n / d
RSub(a, b) == Ratio(a.num * b.den - b.num * a.den, a.den * b.den)
RMul(a, b) == Ratio(a.num * b.num, a.den * b.den)
RLess(a, b) == a.num * b.den < b.num * a.den
RInt(n) == Ratio(n, 1)

(***************************************************************************)
(* Python floats.  A metric that is one expression over integer counters   *)
(* (a percentage, the overlap and language scores) is held as the exact    *)
(* number n / d that the expression denotes; the float the code holds is   *)
(* a function of that number.  context_retention_score and                 *)
(* tool_efficiency_score are sums of floats, whose value depends on the    *)
(* order of the additions, and are computed as IEEE 754 binary64 does:     *)
(* every operation is the exact result rounded to 53 significant bits,     *)
(* ties to even.  A float f >= 0 is the record [m, e] of the number        *)
(* m * 2^e, m odd (or zero, with e = 0); m is a natural number of any      *)
(* size, written as its digits in base 2^15, lowest first.                 *)
(***************************************************************************)
LimbBits == 15
Base == 32768
MantissaBits == 53
\* the bits a quotient is computed to before it is rounded
QuotientBits == 72

limb(x, i) == IF i \in 1..Len(x) THEN x[i] ELSE 0

RECURSIVE big_norm(_)
big_norm(x) ==
    IF Len(x) > 0 /\ x[Len(x)] = 0 THEN big_norm(SubSeq(x, 1, Len(x) - 1)) ELSE x

RECURSIVE big_of(_)
big_of(n) == IF n = 0 THEN <<>> ELSE <<n % Base>> \o big_of(n \div Base)

RECURSIVE big_add_from(_, _, _, _)
big_add_from(x, y, i, carry) ==
    IF i > Len(x) /\ i > Len(y)
    THEN IF carry = 0 THEN <<>> ELSE <<carry>>
    ELSE LET s == limb(x, i) + limb(y, i) + carry
         IN  <<s % Base>> \o big_add_from(x, y, i + 1, s \div Base)

big_add(x, y) == big_add_from(x, y, 1, 0)

RECURSIVE big_sub_from(_, _, _, _)
big_sub_from(x, y, i, borrow) ==
    IF i > Len(x) THEN <<>>
    ELSE LET s == limb(x, i) - limb(y, i) - borrow
         IN  <<s % Base>> \o big_sub_from(x, y, i + 1, IF s < 0 THEN 1 ELSE 0)

\* x - y for x >= y
big_sub(x, y) == big_norm(big_sub_from(x, y, 1, 0))

big_less(x, y) ==
    IF Len(x) # Len(y) THEN Len(x) < Len(y)
    ELSE \E i \in 1..Len(x) : x[i] < y[i] /\ \A j \in (i + 1)..Len(x) : x[j] = y[j]

\* x * 2^k
big_shl(x, k) ==
    LET w == k \div LimbBits
        s == k % LimbBits
        lo(i) == (limb(x, i) % (2 ^ (LimbBits - s))) * (2 ^ s)
        hi(i) == limb(x, i) \div (2 ^ (LimbBits - s))
    IN  big_norm((<<>> \o [i \in 1..w |-> 0]) \o [i \in 1..(Len(x) + 1) |-> lo(i) + hi(i - 1)])

\* x \div 2^k
big_shr(x, k) ==
    LET w == k \div LimbBits
        s == k % LimbBits
    IN  big_norm(<<>> \o [i \in 1..(Len(x) - w) |->
                     (limb(x, i + w) \div (2 ^ s))
                         + (limb(x, i + w + 1) % (2 ^ s)) * (2 ^ (LimbBits - s))])

\* x % 2^k
big_low(x, k) ==
    LET w == k \div LimbBits
        s == k % LimbBits
    IN  big_norm(<<>> \o [i \in 1..(w + 1) |->
                     IF i <= w THEN limb(x, i) ELSE limb(x, i) % (2 ^ s)])

\* bit k of x, bit 0 the lowest
big_bit(x, k) == (limb(x, (k \div LimbBits) + 1) \div (2 ^ (k % LimbBits))) % 2

\* the number of bits of x
big_bits(x) ==
    IF Len(x) = 0 THEN 0
    ELSE LimbBits * (Len(x) - 1)
            + (CHOOSE k \in 1..LimbBits : 2 ^ (k - 1) <= x[Len(x)] /\ x[Len(x)] < 2 ^ k)

\* quotient and remainder of the digits i.. of x by d, 0 < d < 2^16
RECURSIVE big_divmod_from(_, _, _)
big_divmod_from(x, d, i) ==
    IF i > Len(x) THEN [q |-> <<>>, r |-> 0]
    ELSE LET up == big_divmod_from(x, d, i + 1)
             cur == up.r * Base + x[i]
         IN  [q |-> <<cur \div d>> \o up.q, r |-> cur % d]

big_divmod(x, d) ==
    LET qr == big_divmod_from(x, d, 1) IN [q |-> big_norm(qr.q), r |-> qr.r]

FloatZero == [m |-> <<>>, e |-> 0]
FloatOne == [m |-> <<1>>, e |-> 0]

\* the float m * 2^e for a number that has at most 53 significant bits
float_exact(x, e) ==
    IF Len(x) = 0 THEN FloatZero
    ELSE LET z == CHOOSE k \in 0..(big_bits(x) - 1) :
                      big_bit(x, k) = 1 /\ \A j \in 0..(k - 1) : big_bit(x, j) = 0
         IN  [m |-> big_shr(x, z), e |-> e + z]

\* the float nearest to x * 2^e, and to a number just above it when sticky
\* (then x has more than 53 bits); ties go to the even mantissa
float_round(x, e, sticky) ==
    LET n == big_bits(x) IN
    IF n <= MantissaBits THEN float_exact(x, e)
    ELSE LET s == n - MantissaBits
             q == big_shr(x, s)
             half == big_bit(x, s - 1) = 1
             rest == sticky \/ Len(big_low(x, s - 1)) > 0
             up == half /\ (rest \/ big_bit(q, 0) = 1)
         IN  float_exact(IF up THEN big_add(q, <<1>>) ELSE q, e + s)

\* n / d on two ints, n >= 0 and 0 < d < 2^16
float_of_quotient(n, d) ==
    IF n = 0 THEN FloatZero
    ELSE LET qr == big_divmod(big_shl(big_of(n), QuotientBits), d)
         IN  float_round(qr.q, 0 - QuotientBits, qr.r # 0)

\* f / n on a float and an int, 0 < n < 2^16
float_div_int(f, n) ==
    IF Len(f.m) = 0 THEN FloatZero
    ELSE LET qr == big_divmod(big_shl(f.m, QuotientBits), n)
         IN  float_round(qr.q, f.e - QuotientBits, qr.r # 0)

float_add(a, b) ==
    IF Len(a.m) = 0 THEN b
    ELSE IF Len(b.m) = 0 THEN a
    ELSE LET e == Min(a.e, b.e)
         IN  float_round(big_add(big_shl(a.m, a.e - e), big_shl(b.m, b.e - e)), e, FALSE)

float_less(a, b) ==
    LET e == Min(a.e, b.e) IN big_less(big_shl(a.m, a.e - e), big_shl(b.m, b.e - e))

\* a - b for a >= b
float_sub(a, b) ==
    LET e == Min(a.e, b.e)
    IN  float_round(big_sub(big_shl(a.m, a.e - e), big_shl(b.m, b.e - e)), e, FALSE)

\* sum(f[k] for k in 1..n) of floats, added in this order to the int 0
RECURSIVE fsum_upto(_, _)
fsum_upto(f, n) == IF n = 0 THEN FloatZero ELSE float_add(fsum_upto(f, n - 1), f[n])

\* the count cut to 1 for a conversation
_count_agent_overlaps_capped(conv) ==
    LET n == Len(conv.turns)
        agent_of(k) == conv.turns[k].routed_agent
        responsibilities(agent) ==
            {get(conv.turns[k], "category", "unknown") : k \in {j \in 1..n : agent_of(j) = agent}}
    IN  IF \E agent \in {agent_of(k) : k \in 1..n} : Cardinality(responsibilities(agent)) > 1
        THEN 1 ELSE 0

\* the number of responders of the conversation that served more than one
\* distinct category
_count_agent_overlaps(conv) ==
    LET n == Len(conv.turns)
        agent_of(k) == conv.turns[k].routed_agent
        responsibilities(agent) ==
            {get(conv.turns[k], "category", "unknown") : k \in {j \in 1..n : agent_of(j) = agent}}
    IN  Cardinality({agent \in {agent_of(k) : k \in 1..n} :
                        Cardinality(responsibilities(agent)) > 1})

LanguageWords == << <<"h","o","l","a">>, <<"g","r","a","c","i","a","s">>, <<"b","o","n","j","o","u","r">>, <<"m","e","r","c","i">> >>

\* the number of turns of a conversation that is not in English whose reply
\* holds none of the four words
_count_language_mismatches(conv) ==
    LET expected_language == get(conv, "language", "english") IN
    Cardinality({k \in 1..Len(conv.turns) :
        /\ expected_language # "english"
        /\ ~any_word_in(LanguageWords, lower(get(conv.turns[k], "agent_response", <<>>)))})

Whitespace == {" ", "\t", "\n", "\r", "\f"}

\* str.split(): the maximal runs of characters that are not whitespace
RECURSIVE split(_)
split(s) ==
    IF Len(s) = 0 THEN <<>>
    ELSE IF s[1] \in Whitespace THEN split(Tail(s))
    ELSE LET n == CHOOSE m \in 1..Len(s) :
                      /\ \A i \in 1..m : s[i] \notin Whitespace
                      /\ m = Len(s) \/ s[m + 1] \in Whitespace
         IN  <<SubSeq(s, 1, n)>> \o split(SubSeq(s, n + 1, Len(s)))

\* seq[:n]
first_n(seq, n) == SubSeq(seq, 1, Min(n, Len(seq)))

_calculate_context_retention(conv) ==
    LET total_turns_ == Len(conv.turns)
        references_previous(i) ==
            any_word_in(first_n(split(lower(get(conv.turns[i - 1], "customer_message", <<>>))), 3),
                        lower(get(conv.turns[i], "agent_response", <<>>)))
        context_score == Cardinality({i \in 2..total_turns_ : references_previous(i)})
    IN  float_of_quotient(context_score, IF total_turns_ - 1 > 1 THEN total_turns_ - 1 ELSE 1)

\* turn["tool_calls"] raises KeyError in the sum of _calculate_tool_efficiency
tool_efficiency_raises(conv) ==
    \E k \in 1..Len(conv.turns) : "tool_calls" \notin DOMAIN conv.turns[k]

_calculate_tool_efficiency(conv) ==
    LET n == Len(conv.turns)
        total_tool_calls == sum_upto([k \in 1..n |-> Len(conv.turns[k].tool_calls)], n)
        \* optimal_calls is n / 2 and |total_tool_calls - optimal_calls| is gap / 2,
        \* both exact floats; max(optimal_calls, 1) is n / 2 from two turns on
        gap == IF 2 * total_tool_calls >= n THEN 2 * total_tool_calls - n
               ELSE n - 2 * total_tool_calls
        quotient == float_of_quotient(gap, IF n > 2 THEN n ELSE 2)
    IN  \* max(0, 1 - quotient)
        IF float_less(FloatOne, quotient) THEN FloatZero
        ELSE float_sub(FloatOne, quotient)

\* _calculate_creative_metrics raises KeyError in the loop over the conversations
creative_metrics_raises(logs) == \E c \in 1..Len(logs) : tool_efficiency_raises(logs[c])

\* the dict _calculate_creative_metrics stores in self.creative_metrics
_calculate_creative_metrics(logs) ==
    LET total_conversations == Len(logs)
        agent_overlaps ==
            sum_upto([c \in 1..total_conversations |-> _count_agent_overlaps(logs[c])],
                     total_conversations)
        language_mismatches ==
            sum_upto([c \in 1..total_conversations |-> _count_language_mismatches(logs[c])],
                     total_conversations)
        context_retention_score ==
            fsum_upto([c \in 1..total_conversations |-> _calculate_context_retention(logs[c])],
                      total_conversations)
        tool_efficiency_score ==
            fsum_upto([c \in 1..total_conversations |-> _calculate_tool_efficiency(logs[c])],
                      total_conversations)
    IN  IF total_conversations > 0
        THEN [agent_overlap_score |-> Ratio(agent_overlaps, total_conversations),
              language_consistency_score |->
                  RMul(RSub(RInt(1), Ratio(language_mismatches, total_conversations)),
                       RInt(100)),
              context_retention_score |->
                  float_div_int(context_retention_score, total_conversations),
              tool_efficiency_score |->
                  float_div_int(tool_efficiency_score, total_conversations)]
        ELSE [agent_overlap_score |-> RInt(0),
              language_consistency_score |-> RInt(0),
              context_retention_score |-> FloatZero,
              tool_efficiency_score |-> FloatZero]

\* avg_accuracy >= 90 and the other thresholds, on numbers n / d
RAtLeast(a, n) == ~RLess(a, RInt(n))

_calculate_performance_grade(required) ==
    LET avg_accuracy == get(required, "routing_accuracy", RInt(0)) IN
    IF RAtLeast(avg_accuracy, 90) THEN "A"
    ELSE IF RAtLeast(avg_accuracy, 80) THEN "B"
    ELSE IF RAtLeast(avg_accuracy, 70) THEN "C"
    ELSE IF RAtLeast(avg_accuracy, 60) THEN "D"
    ELSE "F"

\* the list built from the dicts the calculator held before the call
_identify_key_issues_stale(required, creative) ==
    (IF RLess(get(required_metrics, "routing_accuracy", RInt(0)), RInt(80))
     THEN <<"Low routing accuracy">> ELSE <<>>)
    \o (IF RLess(get(required_metrics, "tool_call_correctness", RInt(0)), RInt(90))
        THEN <<"Tool call issues">> ELSE <<>>)
    \o (IF RLess(get(required_metrics, "end_call_adherence", RInt(0)), RInt(100))
        THEN <<"END_CALL placement issues">> ELSE <<>>)
    \o (IF RLess(Ratio(1, 2), get(creative_metrics, "agent_overlap_score", RInt(0)))
        THEN <<"Agent responsibility overlaps">> ELSE <<>>)

\* the list _identify_key_issues builds from the two dicts of the calculator
_identify_key_issues(required, creative) ==
    (IF RLess(get(required, "routing_accuracy", RInt(0)), RInt(80))
     THEN <<"Low routing accuracy">> ELSE <<>>)
    \o (IF RLess(get(required, "tool_call_correctness", RInt(0)), RInt(90))
        THEN <<"Tool call issues">> ELSE <<>>)
    \o (IF RLess(get(required, "end_call_adherence", RInt(0)), RInt(100))
        THEN <<"END_CALL placement issues">> ELSE <<>>)
    \o (IF RLess(Ratio(1, 2), get(creative, "agent_overlap_score", RInt(0)))
        THEN <<"Agent responsibility overlaps">> ELSE <<>>)

\* _generate_summary() when the calculator holds the logs and the two dicts
_generate_summary(logs, required, creative) ==
    [total_conversations |-> Len(logs),
     total_turns |-> sum_upto([c \in 1..Len(logs) |-> Len(logs[c].turns)], Len(logs)),
     performance_grade |-> _calculate_performance_grade(required),
     key_issues |-> _identify_key_issues(required, creative)]

(***************************************************************************)
(* LLMClient (agents/llm_client.py)                                        *)
(***************************************************************************)
\* what call_llm returns when a statement of its try block raises
Apology == <<"I","'","m"," ","s","o","r","r","y",","," ","I","'","m"," ","h","a","v","i","n","g"," ","t","r","o","u","b","l","e"," ","p","r","o","c","e","s","s","i","n","g"," ","y","o","u","r"," ","r","e","q","u","e","s","t"," ","r","i","g","h","t"," ","n","o","w",".">>

\* str.strip(): s without its leading and trailing whitespace
RECURSIVE strip(_)
strip(s) ==
    IF Len(s) = 0 THEN s
    ELSE IF s[1] \in Whitespace THEN strip(Tail(s))
    ELSE IF s[Len(s)] \in Whitespace THEN strip(SubSeq(s, 1, Len(s) - 1))
    ELSE s

\* The completion service, as one request sees it: failure names the
\* statement of the try block of call_llm that raises ("post": requests.post,
\* "raise_for_status": an HTTP error status, "json": the body is not JSON,
\* "choices": result['choices'][0]['message']['content'] is missing,
\* "strip": the content is not a string) or is "none", and content is then
\* the content of the first choice.
\* call_llm whose try block ends after raise_for_status
call_llm_request_only(service) ==
    IF service.failure \in {"post", "raise_for_status"}
    THEN [returned |-> Apology, raised |-> "none", posts |-> 1]
    ELSE IF service.failure \in {"json", "choices", "strip"}
    THEN [returned |-> <<>>, raised |-> service.failure, posts |-> 1]
    ELSE [returned |-> strip(service.content), raised |-> "none", posts |-> 1]

\* LLMClient.call_llm(messages, max_tokens): what it returns, the exception
\* that leaves it ("none": it returns) and the number of requests.post calls
call_llm(service) ==
    IF service.failure # "none"
    THEN \* except Exception: return the apology
         [returned |-> Apology, raised |-> "none", posts |-> 1]
    ELSE [returned |-> strip(service.content), raised |-> "none", posts |-> 1]

\* the responder names route_message looks for, in its order
RouteMessageAgents ==
    << [id |-> "SearchAgent",    name |-> <<"S","e","a","r","c","h","A","g","e","n","t">>],
       [id |-> "PolicyAgent",    name |-> <<"P","o","l","i","c","y","A","g","e","n","t">>],
       [id |-> "ComplaintAgent", name |-> <<"C","o","m","p","l","a","i","n","t","A","g","e","n","t">>],
       [id |-> "BookingAgent",   name |-> <<"B","o","o","k","i","n","g","A","g","e","n","t">>],
       [id |-> "CloserAgent",    name |-> <<"C","l","o","s","e","r","A","g","e","n","t">>] >>

\* LLMClient.route_message(message): the call_llm result and the agent returned
\* ("" when call_llm raised)
route_message(msg, service) ==
    LET r == call_llm(service)
        hits == {k \in 1..Len(RouteMessageAgents) :
                    Contains(r.returned, RouteMessageAgents[k].name)}
    IN  [llm |-> r,
         returned |->
            IF r.raised # "none" THEN ""
            ELSE IF hits # {}
            THEN RouteMessageAgents[CHOOSE k \in hits : \A j \in hits : k <= j].id
            ELSE "SearchAgent"]

(***************************************************************************)
(* SpecRoute: one route call on an arbitrary message                       *)
(***************************************************************************)
InitCommon ==
    /\ routing_history = <<>>
    /\ response_history = [a \in AgentIds |-> <<>>]
    /\ eval_logs = <<>>
    /\ conversation_logs = <<>>
    /\ required_metrics = <<>>
    /\ pc = "loop"
    /\ scenario_type = ""
    /\ conversation = <<>>
    /\ turns = <<>>
    /\ conv_i = 0
    /\ error = "none"
    /\ turn_log = <<>>
    /\ selected = ""
    /\ calls = <<>>
    /\ scored = -1
    /\ creative_metrics = <<>>
    /\ report = <<>>
    /\ llm_reply = <<>>

InitRoute ==
    /\ InitCommon
    /\ policy_version = "v0"
    /\ num_conversations = 0
    /\ message \in RouteInputs

\* the effect of a call on the router and the responders
SetComponents(st) ==
    /\ routing_history' = st.routing_history
    /\ response_history' = st.response_history
    /\ calls' = st.calls
    /\ error' = st.error

\* RouterAgent.route(message)
RouteOnce ==
    /\ selected = ""
    /\ \E st \in {route(Components, message)} : SetComponents(st)
    /\ selected' = _route_v0(message)
    /\ UNCHANGED <<llm_reply, policy_version, creative_metrics, report,
                   eval_logs, conversation_logs, required_metrics, pc, scenario_type,
                   conversation, turns, num_conversations,
                   conv_i, turn_log, message, scored>>

NextRoute == RouteOnce

SpecRoute == InitRoute /\ [][NextRoute]_vars

(***************************************************************************)
(* Spec: run_evaluation(num_conversations)                                 *)
(***************************************************************************)
Init ==
    /\ InitCommon
    /\ policy_version = "v0"
    /\ num_conversations \in 0..MaxConversations
    /\ message = <<>>

\* run_evaluation enters _run_single_conversation(i + 1): the scenario is
\* drawn and the conversation generated
BeginConversation ==
    /\ pc = "loop"
    /\ conv_i < num_conversations
    /\ \E t \in 1..Len(scenario_types), num_turns \in 4..6, language \in multilingual_languages :
         LET conv_id == conv_i + 1
             generated_type == IF conv_id = 6 THEN "refund_status" ELSE scenario_types[t]
             generated_language == IF conv_id = 6 THEN language ELSE "english"
             messages == scenario_of(generated_type).messages
         IN  \E sample \in Samples(Len(messages), Min(num_turns, Len(messages))) :
               /\ scenario_type' = scenario_types[t]
               /\ conversation' =
                      generate_conversation(generated_type, generated_language, sample)
    /\ turns' = <<>>
    /\ pc' = "turns"
    /\ UNCHANGED <<llm_reply, policy_version, creative_metrics, report,
                   routing_history, response_history, eval_logs, conversation_logs,
                   required_metrics, num_conversations, conv_i, error, turn_log, message,
                   selected, calls, scored>>

\* one iteration of the turns loop: _process_turn on the next generated turn
RunTurn ==
    /\ pc = "turns"
    /\ Len(turns) < Len(conversation)
    /\ \E t \in {_process_turn(Components, conv_i + 1, conversation[Len(turns) + 1])} :
         /\ SetComponents(t.st)
         /\ turns' = turns \o t.returned
         /\ pc' = IF t.st.error = "none" THEN pc ELSE "crashed"
    /\ UNCHANGED <<llm_reply, policy_version, creative_metrics, report,
                   eval_logs, conversation_logs, required_metrics, scenario_type,
                   conversation, num_conversations, conv_i, turn_log, message, selected,
                   scored>>

\* _run_single_conversation returns its log; run_evaluation appends it to its
\* own list and hands it to the metrics calculator
EndConversation ==
    /\ pc = "turns"
    /\ Len(turns) = Len(conversation)
    /\ LET log == conversation_log(conv_i + 1, scenario_type, conversation, turns) IN
         /\ eval_logs' = Append(eval_logs, log)
         /\ conversation_logs' = Append(conversation_logs, log)
    /\ conv_i' = conv_i + 1
    /\ pc' = "loop"
    /\ UNCHANGED <<llm_reply, policy_version, creative_metrics, report,
                   routing_history, response_history, required_metrics, scenario_type,
                   conversation, turns, num_conversations, error, turn_log, message,
                   selected, calls, scored>>

\* MetricsCalculator.calculate_all_metrics()
calculate_all_metrics ==
    /\ \E required \in {_calculate_required_metrics(conversation_logs)} :
          /\ required_metrics' = required
          /\ IF creative_metrics_raises(conversation_logs)
             THEN /\ error' = "KeyError"
                  /\ report' = <<>>
                  /\ UNCHANGED creative_metrics
             ELSE \E creative \in {_calculate_creative_metrics(conversation_logs)} :
                  /\ error' = "none"
                  /\ creative_metrics' = creative
                  /\ report' = [required_metrics |-> required,
                                creative_metrics |-> creative,
                                summary |-> _generate_summary(conversation_logs,
                                                              required, creative)]
    /\ scored' = Len(conversation_logs)

\* the end of run_evaluation: the metrics of the conversations run
CalculateMetrics ==
    /\ pc = "loop"
    /\ conv_i = num_conversations
    /\ calculate_all_metrics
    /\ pc' = IF error' = "none" THEN "done" ELSE "crashed"
    /\ UNCHANGED <<llm_reply, policy_version,
                   routing_history, response_history, eval_logs, conversation_logs,
                   scenario_type, conversation, turns, num_conversations, conv_i,
                   turn_log, message, selected, calls>>

Next == BeginConversation \/ RunTurn \/ EndConversation \/ CalculateMetrics

Spec == Init /\ [][Next]_vars

(***************************************************************************)
(* SpecAPI: route, respond and _process_turn called directly               *)
(***************************************************************************)
APIMessages ==
    { <<"G","o","o","d","b","y","e">>,
      <<"C","h","e","c","k"," ","m","y"," ","r","e","f","u","n","d"," ","s","t","a","t","u","s"," ","f","o","r"," ","b","o","o","k","i","n","g"," ","I","D"," ","4","5","6">>,
      <<"I"," ","n","e","e","d"," ","t","o"," ","k","n","o","w"," ","a","b","o","u","t"," ","m","y"," ","r","e","f","u","n","d"," ","f","o","r"," ","b","o","o","k","i","n","g"," ","7","8","9">>,
      <<"I"," ","h","a","v","e"," ","a"," ","c","o","m","p","l","a","i","n","t"," ","a","b","o","u","t"," ","t","h","e"," ","s","e","r","v","i","c","e">>,
      <<"W","h","a","t"," ","i","s"," ","t","h","e"," ","b","a","g","g","a","g","e"," ","a","l","l","o","w","a","n","c","e"," ","f","o","r"," ","d","o","m","e","s","t","i","c"," ","f","l","i","g","h","t","s","?">> }

APICategories == {"refund_status"}

InitAPI ==
    /\ InitCommon
    /\ policy_version = "v0"
    /\ num_conversations = 0
    /\ message = <<>>

\* router.route(msg)
Route(msg) ==
    /\ Len(calls) < MaxCalls
    /\ \E st \in {route(Components, msg)} : SetComponents(st)
    /\ UNCHANGED <<llm_reply, policy_version, creative_metrics, report,
                   eval_logs, conversation_logs, required_metrics, pc, scenario_type,
                   conversation, turns, num_conversations,
                   conv_i, turn_log, message, selected, scored>>

\* agents[a].respond(msg)
Respond(a, msg) ==
    /\ Len(calls) < MaxCalls
    /\ \E st \in {call_respond(Components, a, msg)} : SetComponents(st)
    /\ UNCHANGED <<llm_reply, policy_version, creative_metrics, report,
                   eval_logs, conversation_logs, required_metrics, pc, scenario_type,
                   conversation, turns, num_conversations,
                   conv_i, turn_log, message, selected, scored>>

\* evaluator._process_turn(conv_id, turn_data)
ProcessTurn(conv_id, turn_data) ==
    /\ Len(calls) < MaxCalls
    /\ error = "none"
    /\ \E t \in {_process_turn(Components, conv_id, turn_data)} :
         /\ SetComponents(t.st)
         /\ turn_log' = t.returned
    /\ UNCHANGED <<llm_reply, policy_version, creative_metrics, report,
                   eval_logs, conversation_logs, required_metrics, pc, scenario_type,
                   conversation, turns, num_conversations, conv_i, message, selected, scored>>

NextAPI ==
    \/ \E msg \in APIMessages : Route(msg)
    \/ \E a \in AgentIds, msg \in APIMessages : Respond(a, msg)
    \/ \E msg \in APIMessages, category \in APICategories :
          ProcessTurn(1, [turn_id |-> 1, message |-> msg, category |-> category,
                          language |-> "english"])

SpecAPI == InitAPI /\ [][NextAPI]_vars

(***************************************************************************)
(* SpecMetrics: add_conversation_log and calculate_all_metrics on          *)
(* arbitrary batches                                                       *)
(***************************************************************************)
\* the categories and routed responders of the turns of a batch
BatchCategories == {"refund_status", "baggage_policy", "complaint", "mixed"}
BatchAgents == {"SearchAgent", "PolicyAgent", "CloserAgent"}

\* the message of the batch turns of a category
batch_message(category) ==
    IF category = "mixed" THEN <<"G","o","o","d","b","y","e">> ELSE scenario_of(category).messages[2]

\* the record of a turn of the given category that a router sent to routed_agent
batch_turn(conv_id, k, category, routed_agent) ==
    turn_record(conv_id,
                [turn_id |-> k, message |-> batch_message(category), category |-> category],
                routed_agent, respond(routed_agent, batch_message(category)))

TurnChoices == BatchCategories \X BatchAgents

InitMetrics ==
    /\ InitCommon
    /\ policy_version = "v0"
    /\ num_conversations = 0
    /\ message = <<>>

total_turns(logs) == Len(visited_turns(logs))

\* metrics_calculator.add_conversation_log(conversation_log)
add_conversation_log(log) ==
    /\ conversation_logs' = Append(conversation_logs, log)
    /\ UNCHANGED <<llm_reply, policy_version, creative_metrics, report,
                   routing_history, response_history, eval_logs, required_metrics, pc,
                   scenario_type, conversation, turns, num_conversations, conv_i, error,
                   turn_log, message, selected, calls, scored>>

\* the call on a batch that stays within MaxBatch logs and MaxTurns turns
AddConversationLog(log) ==
    /\ Len(conversation_logs) < MaxBatch
    /\ total_turns(conversation_logs) + Len(log.turns) <= MaxTurns
    /\ add_conversation_log(log)

\* metrics_calculator.calculate_all_metrics()
CalculateAllMetrics ==
    /\ calculate_all_metrics
    /\ UNCHANGED <<llm_reply, policy_version,
                   routing_history, response_history, eval_logs, conversation_logs, pc,
                   scenario_type, conversation, turns, num_conversations, conv_i,
                   turn_log, message, selected, calls>>

NextMetrics ==
    \/ \E n \in 0..(MaxTurns - total_turns(conversation_logs)) :
         \E choice \in [1..n -> TurnChoices] :
            AddConversationLog(
                conversation_log(Len(conversation_logs) + 1, "mixed",
                    [k \in 1..n |-> [language |-> "english"]],
                    [k \in 1..n |->
                        batch_turn(Len(conversation_logs) + 1, k,
                                   choice[k][1], choice[k][2])]))
    \/ CalculateAllMetrics

SpecMetrics == InitMetrics /\ [][NextMetrics]_vars

(***************************************************************************)
(* SpecFlow: batches in which turn records may repeat                      *)
(***************************************************************************)
\* the turn ids a record of SpecFlow may carry: two records of a conversation
\* with the same id and the same responder are equal in every field
FlowTurnIds == {1, 2}
FlowAgents == {"SearchAgent", "CloserAgent"}
FlowChoices == FlowAgents \X FlowTurnIds

NextFlow ==
    \/ \E n \in 0..(MaxTurns - total_turns(conversation_logs)) :
         \E choice \in [1..n -> FlowChoices] :
            AddConversationLog(
                conversation_log(Len(conversation_logs) + 1, "mixed",
                    [k \in 1..n |-> [language |-> "english"]],
                    [k \in 1..n |->
                        batch_turn(Len(conversation_logs) + 1, choice[k][2],
                                   "mixed", choice[k][1])]))
    \/ CalculateAllMetrics

SpecFlow == InitMetrics /\ [][NextFlow]_vars

(***************************************************************************)
(* SpecTools: batches whose turns differ in the tool calls they carry      *)
(***************************************************************************)
\* dict without a key
without(dict, key) == [f \in DOMAIN dict \ {key} |-> dict[f]]

ToolShapes ==
    {"one_call", "two_calls", "no_call", "no_list", "no_params", "no_action",
     "empty_action", "closer"}

\* a turn record of the given shape: the record of a refund_status turn that
\* SearchAgent answered, with its tool-call list changed, or the record of a
\* turn that CloserAgent answered
tool_turn(conv_id, k, shape) ==
    LET msg == refund_status_messages[1]
        base == turn_record(conv_id,
                            [turn_id |-> k, message |-> msg, category |-> "refund_status"],
                            "SearchAgent", respond("SearchAgent", msg))
        call == base.tool_calls[1]
    IN  CASE shape = "one_call" -> base
          [] shape = "two_calls" -> [base EXCEPT !.tool_calls = <<call, call>>]
          [] shape = "no_call" -> [base EXCEPT !.tool_calls = <<>>]
          [] shape = "no_list" -> without(base, "tool_calls")
          [] shape = "no_params" -> [base EXCEPT !.tool_calls = <<without(call, "params")>>]
          [] shape = "no_action" -> [base EXCEPT !.tool_calls = <<without(call, "action")>>]
          [] shape = "empty_action" ->
                [base EXCEPT !.tool_calls = <<[action |-> "", params |-> <<>>]>>]
          [] shape = "closer" -> batch_turn(conv_id, k, "mixed", "CloserAgent")

NextTools ==
    \/ \E n \in 0..(MaxTurns - total_turns(conversation_logs)) :
         \E choice \in [1..n -> ToolShapes] :
            AddConversationLog(
                conversation_log(Len(conversation_logs) + 1, "mixed",
                    [k \in 1..n |-> [language |-> "english"]],
                    [k \in 1..n |-> tool_turn(Len(conversation_logs) + 1, k, choice[k])]))
    \/ CalculateAllMetrics

SpecTools == InitMetrics /\ [][NextTools]_vars

(***************************************************************************)
(* SpecPolicy: turns run under either policy configuration and scored      *)
(***************************************************************************)
PolicyVersions == {"v0", "v1"}

PolicyMessages ==
    { <<"G","o","o","d","b","y","e">>, <<"T","h","a","n","k","s",","," ","t","h","a","t"," ","i","s"," ","a","l","l","."," ","B","y","e">>,
      <<"C","h","e","c","k"," ","m","y"," ","r","e","f","u","n","d"," ","s","t","a","t","u","s"," ","f","o","r"," ","b","o","o","k","i","n","g"," ","I","D"," ","4","5","6">> }

InitPolicy ==
    /\ InitCommon
    /\ policy_version \in PolicyVersions
    /\ num_conversations = 0
    /\ message = <<>>

NextPolicy ==
    \/ \E msg \in APIMessages \cup PolicyMessages : Respond("CloserAgent", msg)
    \/ \E msg \in PolicyMessages :
          ProcessTurn(Len(conversation_logs) + 1,
                      [turn_id |-> 1, message |-> msg, category |-> "mixed",
                       language |-> "english"])
    \/ /\ Len(turn_log) > 0
       /\ AddConversationLog(
              conversation_log(Len(conversation_logs) + 1, "mixed",
                               <<[language |-> "english"]>>, turn_log))
    \/ CalculateAllMetrics

SpecPolicy == InitPolicy /\ [][NextPolicy]_vars

(***************************************************************************)
(* SpecLanguage: batches of conversations in several languages             *)
(***************************************************************************)
BatchLanguages == {"english", "spanish", "french"}
ReplyShapes == {"plain", "greeting"}

\* a turn record whose reply is the one SearchAgent gives, as it is or after
\* a greeting in Spanish
language_turn(conv_id, k, shape) ==
    LET base == batch_turn(conv_id, k, "refund_status", "SearchAgent") IN
    IF shape = "plain" THEN base
    ELSE [base EXCEPT !.agent_response = <<"H","o","l","a",","," ","G","r","a","c","i","a","s","."," ">> \o @]

NextLanguage ==
    \/ \E n \in 0..(MaxTurns - total_turns(conversation_logs)) :
         \E language \in BatchLanguages, choice \in [1..n -> ReplyShapes] :
            AddConversationLog(
                [conversation_log(Len(conversation_logs) + 1, "refund_status", <<>>,
                    [k \in 1..n |-> language_turn(Len(conversation_logs) + 1, k, choice[k])])
                 EXCEPT !.language = language])
    \/ CalculateAllMetrics

SpecLanguage == InitMetrics /\ [][NextLanguage]_vars

(***************************************************************************)
(* SpecOverlap: conversations in which responders serve several categories *)
(***************************************************************************)
\* number of turns, over all its conversations, of a batch of SpecOverlap
MaxOverlapTurns == 4

OverlapChoices == {"refund_status", "baggage_policy"} \X {"SearchAgent", "PolicyAgent"}

NextOverlap ==
    \/ \E n \in 0..(MaxOverlapTurns - total_turns(conversation_logs)) :
         \E choice \in [1..n -> OverlapChoices] :
            /\ Len(conversation_logs) < MaxBatch
            /\ add_conversation_log(
                conversation_log(Len(conversation_logs) + 1, "mixed",
                    [k \in 1..n |-> [language |-> "english"]],
                    [k \in 1..n |->
                        batch_turn(Len(conversation_logs) + 1, k,
                                   choice[k][1], choice[k][2])]))
    \/ CalculateAllMetrics

SpecOverlap == InitMetrics /\ [][NextOverlap]_vars

(***************************************************************************)
(* SpecReport: batches on which each of the four issue conditions holds    *)
(* for some reports and fails for others                                   *)
(***************************************************************************)
ReportShapes == {"one_call", "no_params", "misrouted", "closer"}

\* a turn record of the given shape: a refund_status turn SearchAgent
\* answered with one tool call (whole, or without its params), a
\* baggage_policy turn SearchAgent answered, or a turn CloserAgent answered
report_turn(conv_id, k, shape) ==
    IF shape = "misrouted" THEN batch_turn(conv_id, k, "baggage_policy", "SearchAgent")
    ELSE tool_turn(conv_id, k, shape)

NextReport ==
    \/ \E n \in 0..(MaxTurns - total_turns(conversation_logs)) :
         \E choice \in [1..n -> ReportShapes] :
            AddConversationLog(
                conversation_log(Len(conversation_logs) + 1, "mixed",
                    [k \in 1..n |-> [language |-> "english"]],
                    [k \in 1..n |-> report_turn(Len(conversation_logs) + 1, k, choice[k])]))
    \/ CalculateAllMetrics

SpecReport == InitMetrics /\ [][NextReport]_vars

(***************************************************************************)
(* SpecOrder: batches of three conversations whose context retention and   *)
(* tool efficiency differ, added in every order                            *)
(***************************************************************************)
\* number of conversations of a batch of SpecOrder
MaxOrderBatch == 3

\* the turns of a conversation, as shapes of report_turn
OrderConversations ==
    { <<>>,
      <<"one_call">>,
      <<"one_call", "no_call">>,
      <<"one_call", "no_call", "closer", "closer">> }

NextOrder ==
    \/ \E shapes \in OrderConversations :
          /\ Len(conversation_logs) < MaxOrderBatch
          /\ add_conversation_log(
                conversation_log(Len(conversation_logs) + 1, "mixed",
                    [k \in 1..Len(shapes) |-> [language |-> "english"]],
                    [k \in 1..Len(shapes) |->
                        report_turn(Len(conversation_logs) + 1, k, shapes[k])]))
    \/ CalculateAllMetrics

SpecOrder == InitMetrics /\ [][NextOrder]_vars

(***************************************************************************)
(* SpecLLM: call_llm and route_message against a completion service that   *)
(* fails in each way or answers                                            *)
(***************************************************************************)
ServiceFailures == {"post", "raise_for_status", "json", "choices", "strip"}

ServiceContents ==
    { <<"S","e","a","r","c","h","A","g","e","n","t">>, <<" ", "\n">> \o <<"P","o","l","i","c","y","A","g","e","n","t">> \o <<" ">>,
      <<"C","l","o","s","e","r","A","g","e","n","t"," ","o","r"," ","P","o","l","i","c","y","A","g","e","n","t">>, <<"I"," ","w","o","u","l","d"," ","p","i","c","k"," ","t","h","e"," ","b","o","o","k","i","n","g"," ","a","g","e","n","t">>, <<>> }

Services ==
    {[failure |-> f, content |-> <<>>] : f \in ServiceFailures}
        \cup {[failure |-> "none", content |-> c] : c \in ServiceContents}

LLMMessages == { <<"G","o","o","d","b","y","e">>, <<"C","h","e","c","k"," ","m","y"," ","r","e","f","u","n","d"," ","s","t","a","t","u","s"," ","f","o","r"," ","b","o","o","k","i","n","g"," ","I","D"," ","4","5","6">> }

llm_call_entry(op, msg, service, r, agent) ==
    [op |-> op, agent |-> "LLMClient", message |-> msg, selected_agent |-> agent,
     response |-> r.returned, tool_calls |-> <<>>, service |-> service,
     posts |-> r.posts, raised |-> r.raised]

\* llm_client.call_llm(messages)
CallLLM(service) ==
    /\ Len(calls) < MaxCalls
    /\ error = "none"
    /\ \E r \in {call_llm(service)} :
         /\ llm_reply' = r.returned
         /\ error' = r.raised
         /\ calls' = Append(calls, llm_call_entry("call_llm", <<>>, service, r, ""))
    /\ UNCHANGED <<policy_version, creative_metrics, report, routing_history,
                   response_history, eval_logs, conversation_logs, required_metrics, pc,
                   scenario_type, conversation, turns, num_conversations, conv_i, turn_log,
                   message, selected, scored>>

\* llm_client.route_message(msg)
RouteMessage(msg, service) ==
    /\ Len(calls) < MaxCalls
    /\ error = "none"
    /\ \E t \in {route_message(msg, service)} :
         /\ llm_reply' = t.llm.returned
         /\ error' = t.llm.raised
         /\ selected' = t.returned
         /\ calls' = Append(calls, llm_call_entry("route_message", msg, service, t.llm,
                                                  t.returned))
    /\ UNCHANGED <<policy_version, creative_metrics, report, routing_history,
                   response_history, eval_logs, conversation_logs, required_metrics, pc,
                   scenario_type, conversation, turns, num_conversations, conv_i, turn_log,
                   message, scored>>

NextLLM ==
    \/ \E service \in Services : CallLLM(service)
    \/ \E msg \in LLMMessages, service \in Services : RouteMessage(msg, service)

SpecLLM == InitAPI /\ [][NextLLM]_vars

(***************************************************************************)
(* SpecRun: run_evaluation over several conversations, the scenario drawn  *)
(* from two categories and the messages in scenario order or reversed      *)
(***************************************************************************)
\* largest num_conversations handed to run_evaluation in SpecRun
MaxRun == 2

RunScenarioTypes == {"refund_status", "complaint"}
RunSamples == {<<1, 2, 3>>, <<3, 2, 1>>}

InitRun ==
    /\ InitCommon
    /\ policy_version = "v0"
    /\ num_conversations \in 0..MaxRun
    /\ message = <<>>

NextRun ==
    \/ /\ BeginConversation
       /\ scenario_type' \in RunScenarioTypes
       /\ \E sample \in RunSamples :
             conversation' = generate_conversation(scenario_type', "english", sample)
    \/ RunTurn
    \/ EndConversation
    \/ CalculateMetrics

SpecRun == InitRun /\ [][NextRun]_vars

(***************************************************************************)
(* SpecRespond: one respond call of any responder on a message built from  *)
(* the keyword fragments, a simulator message or a message with digits     *)
(***************************************************************************)
DigitMessages ==
    { <<"b","o","o","k","i","n","g"," ","i","d"," ","1","2","a","3","4">>, <<"r","e","f","u","n","d"," ","s","t","a","t","u","s"," ","0","0","7">>, <<"R","e","f","u","n","d"," ","S","t","a","t","u","s"," ","o","f"," ","4","0"," ","b","o","o","k","i","n","g","s">>,
      <<"m","y"," ","b","o","o","k","i","n","g"," ","5">>, <<"b","o","o","k","i","n","g"," ","i","d">> }

RespondInputs == RouteInputs \cup DigitMessages

InitRespond ==
    /\ InitCommon
    /\ policy_version = "v0"
    /\ num_conversations = 0
    /\ message \in RespondInputs

\* agents[a].respond(message)
RespondOnce(a) ==
    /\ calls = <<>>
    /\ \E st \in {call_respond(Components, a, message)} : SetComponents(st)
    /\ UNCHANGED <<llm_reply, policy_version, creative_metrics, report,
                   eval_logs, conversation_logs, required_metrics, pc, scenario_type,
                   conversation, turns, num_conversations,
                   conv_i, turn_log, message, selected, scored>>

NextRespond == \E a \in AgentIds : RespondOnce(a)

SpecRespond == InitRespond /\ [][NextRespond]_vars

(***************************************************************************)
(* SpecDuplicate: the Search and the Policy responder each asked once, in  *)
(* either order, about the same message                                    *)
(***************************************************************************)
DuplicateAgents == {"SearchAgent", "PolicyAgent"}

\* agents[a].respond(message), once per responder
RespondFirstTime(a) ==
    /\ \A k \in 1..Len(calls) : calls[k].agent # a
    /\ \E st \in {call_respond(Components, a, message)} : SetComponents(st)
    /\ UNCHANGED <<llm_reply, policy_version, creative_metrics, report,
                   eval_logs, conversation_logs, required_metrics, pc, scenario_type,
                   conversation, turns, num_conversations,
                   conv_i, turn_log, message, selected, scored>>

NextDuplicate == \E a \in DuplicateAgents : RespondFirstTime(a)

SpecDuplicate == InitRespond /\ [][NextDuplicate]_vars

(***************************************************************************)
(* SpecGenerate: one generate_conversation call for any scenario type and  *)
(* language                                                                *)
(***************************************************************************)
GenerateTypes ==
    {conversation_scenarios[s].category : s \in 1..Len(conversation_scenarios)}
        \cup {"random", "lost_item"}

GenerateLanguages == {"english", "spanish", "french"}

\* customer_simulator.generate_conversation(type, language)
GenerateConversation(type, language) ==
    /\ calls = <<>>
    /\ \E num_turns \in 4..6, s \in 1..Len(conversation_scenarios) :
         LET picked == IF type = "random" THEN conversation_scenarios[s].category ELSE type
             messages == scenario_of(picked).messages
         IN  \E sample \in Samples(Len(messages), Min(num_turns, Len(messages))) :
               \E generated \in {generate_conversation(picked, language, sample)} :
                  /\ conversation' = generated
                  /\ calls' = <<[op |-> "generate_conversation", agent |-> "CustomerSimulator",
                                 scenario_type |-> type, language |-> language,
                                 returned |-> generated]>>
    /\ UNCHANGED <<llm_reply, policy_version, creative_metrics, report, routing_history,
                   response_history, eval_logs, conversation_logs, required_metrics, pc,
                   scenario_type, turns, num_conversations, conv_i, error, turn_log,
                   message, selected, scored>>

NextGenerate ==
    \E type \in GenerateTypes, language \in GenerateLanguages :
        GenerateConversation(type, language)

SpecGenerate == InitAPI /\ [][NextGenerate]_vars

(***************************************************************************)
(* SpecCalls: either one respond call of any responder on any message of   *)
(* SpecRespond, or a run of run_evaluation                                 *)
(***************************************************************************)
InitCalls ==
    /\ InitCommon
    /\ policy_version = "v0"
    /\ \/ message \in RespondInputs /\ num_conversations = 0
       \/ message = <<>> /\ num_conversations \in 0..MaxConversations

NextCalls ==
    \/ \E a \in AgentIds : num_conversations = 0 /\ RespondOnce(a)
    \/ message = <<>> /\ Next

SpecCalls == InitCalls /\ [][NextCalls]_vars

(***************************************************************************)
(* Routing claims, stated on the keyword sets as the specification lists   *)
(* them, matched case-insensitively as substrings                          *)
(***************************************************************************)
ContainsCI(s, w) ==
    \E i \in 0..(Len(s) - Len(w)) :
        \A j \in 1..Len(w) : lower_char(s[i + j]) = lower_char(w[j])

MatchesAny(s, words) == \E w \in words : ContainsCI(s, w)

Rule1 == { <<"b","y","e">>, <<"g","o","o","d","b","y","e">>, <<"e","n","d">>, <<"c","l","o","s","e">>, <<"f","i","n","i","s","h">> }
Rule2 == { <<"s","e","a","r","c","h">>, <<"f","i","n","d">>, <<"f","l","i","g","h","t">>, <<"r","e","f","u","n","d"," ","s","t","a","t","u","s">>, <<"b","o","o","k","i","n","g"," ","i","d">> }
Rule3 == { <<"p","o","l","i","c","y">>, <<"b","a","g","g","a","g","e">>, <<"a","l","l","o","w","a","n","c","e">>, <<"r","e","f","u","n","d"," ","p","o","l","i","c","y">> }
Rule4 == { <<"c","o","m","p","l","a","i","n","t">>, <<"d","a","m","a","g","e">>, <<"p","r","o","b","l","e","m">>, <<"i","s","s","u","e">> }
Rule5 == { <<"b","o","o","k","i","n","g">>, <<"p","a","s","s","e","n","g","e","r">>, <<"d","e","t","a","i","l","s">>, <<"c","o","n","f","i","r","m">> }

RuleOrder ==
    << [keywords |-> Rule1, responder |-> "CloserAgent"],
       [keywords |-> Rule2, responder |-> "SearchAgent"],
       [keywords |-> Rule3, responder |-> "PolicyAgent"],
       [keywords |-> Rule4, responder |-> "ComplaintAgent"],
       [keywords |-> Rule5, responder |-> "BookingAgent"] >>

MatchingRules(s) == {r \in 1..5 : MatchesAny(s, RuleOrder[r].keywords)}

EarliestMatch(s) ==
    RuleOrder[CHOOSE r \in MatchingRules(s) : \A q \in MatchingRules(s) : r <= q].responder

Routed == selected # "" /\ Len(routing_history) = 1

Msg789 == <<"I"," ","n","e","e","d"," ","t","o"," ","k","n","o","w"," ","a","b","o","u","t"," ","m","y"," ","r","e","f","u","n","d"," ","f","o","r"," ","b","o","o","k","i","n","g"," ","7","8","9">>
MsgLuggage == <<"H","o","w"," ","m","u","c","h"," ","l","u","g","g","a","g","e"," ","c","a","n"," ","I"," ","c","a","r","r","y","?">>

\* C1: every message containing a termination keyword is routed to CloserAgent,
\* whatever other keywords it contains.
C1_TerminationDominates ==
    (Routed /\ MatchesAny(message, Rule1))
        => /\ selected = "CloserAgent"
           /\ routing_history[1].selected_agent = "CloserAgent"

C1_Witness ==
    /\ Routed
    /\ selected = "CloserAgent"
    /\ MatchesAny(message, Rule2)
    /\ MatchesAny(message, Rule1)

\* C2: a message containing no keyword of rules 1-5, the empty message included,
\* is routed to SearchAgent and the call returns normally.
C2_DefaultIsSearch ==
    (Routed /\ MatchingRules(message) = {})
        => /\ selected = "SearchAgent"
           /\ selected \in AgentIds
           /\ error = "none"

C2_Witness ==
    /\ Routed
    /\ message = <<>>
    /\ selected = "SearchAgent"

\* C3: the responder is the one of the earliest matching rule in the order
\* Closer, Search, Policy, Complaint, Booking, and it is the same for the
\* upper-case and the lower-case spelling of the message.
C3_FirstMatchWins ==
    Routed =>
        /\ MatchingRules(message) # {} => selected = EarliestMatch(message)
        /\ _route_v0(upper(message)) = selected
        /\ _route_v0(lower(message)) = selected

C3_Witness ==
    /\ Routed
    /\ ContainsCI(message, <<"f","l","i","g","h","t">>)
    /\ ContainsCI(message, <<"b","a","g","g","a","g","e">>)
    /\ message # lower(message)
    /\ message # upper(message)
    /\ selected = "SearchAgent"

\* C4 as stated: the refund-for-booking-789 message matches no keyword of
\* rules 1-5 and is routed to SearchAgent by the default.
C4_Original ==
    (Routed /\ message = Msg789)
        => /\ MatchingRules(message) = {}
           /\ selected = "SearchAgent"

\* C4 amended: the message matches the keyword 'booking' of rule 5 and no
\* keyword of rules 1-4, and is routed to BookingAgent.
C4_RoutedToBooking ==
    (Routed /\ message = Msg789)
        => /\ MatchingRules(message) = {5}
           /\ ContainsCI(message, <<"b","o","o","k","i","n","g">>)
           /\ selected = "BookingAgent"

C4_Witness ==
    /\ Routed
    /\ message = Msg789

(***************************************************************************)
(* Claims on the runner, the histories and the metrics                     *)
(***************************************************************************)
\* the expected responder of a category, as the specification tabulates it
ExpectedResponder(category) ==
    CASE category \in {"refund_status", "flight_search"} -> "SearchAgent"
      [] category \in {"refund_policy", "baggage_policy"} -> "PolicyAgent"
      [] category = "complaint" -> "ComplaintAgent"
      [] category = "booking_details" -> "BookingAgent"
      [] OTHER -> "SearchAgent"

\* the batch the stored metrics were computed from
ScoredBatch == SubSeq(conversation_logs, 1, scored)

\* the positions <<c, k>> of the turns of a batch
TurnPositions(logs) ==
    UNION {{<<c, k>> : k \in 1..Len(logs[c].turns)} : c \in 1..Len(logs)}

TurnAt(logs, p) == logs[p[1]].turns[p[2]]

Misrouted(logs) ==
    {p \in TurnPositions(logs) :
        TurnAt(logs, p).routed_agent # ExpectedResponder(TurnAt(logs, p).category)}

\* the batch without the turn at position p
WithoutTurn(logs, p) ==
    [c \in 1..Len(logs) |->
        IF c # p[1] THEN logs[c]
        ELSE [logs[c] EXCEPT !.turns =
                 SubSeq(@, 1, p[2] - 1) \o SubSeq(@, p[2] + 1, Len(@))]]

IsLuggageTurn(t) == t.customer_message = MsgLuggage /\ t.category = "baggage_policy"

\* C5: the turn "How much luggage can I carry?" of category baggage_policy
\* matches no rule and goes to SearchAgent, its expected responder is
\* PolicyAgent, and the metrics count it as one misrouting.
C5_LuggageMisrouted ==
    /\ \A k \in 1..Len(turns) :
          IsLuggageTurn(turns[k]) =>
              /\ MatchingRules(turns[k].customer_message) = {}
              /\ turns[k].routed_agent = "SearchAgent"
              /\ ExpectedResponder(turns[k].category) = "PolicyAgent"
    /\ pc = "done" =>
          \A p \in TurnPositions(conversation_logs) :
              IsLuggageTurn(TurnAt(conversation_logs, p)) =>
                  /\ TurnAt(conversation_logs, p).routed_agent = "SearchAgent"
                  /\ required_metrics.misrouting_count =
                         _calculate_required_metrics(
                             WithoutTurn(conversation_logs, p)).misrouting_count + 1

C5_Witness ==
    /\ pc = "done"
    /\ \E p \in TurnPositions(conversation_logs) :
          IsLuggageTurn(TurnAt(conversation_logs, p))
    /\ required_metrics.misrouting_count > 0

ClosedResponderSet ==
    {"SearchAgent", "PolicyAgent", "ComplaintAgent", "BookingAgent", "CloserAgent"}

\* C6: a turn record carries one responder id of the closed set of five, the
\* lookup of the responder never fails, and the record's reply and tool calls
\* are what that responder returned for the record's message.
C6_TurnRecord ==
    /\ error = "none"
    /\ turn_log # <<>> =>
          /\ Len(turn_log) = 1
          /\ turn_log[1].routed_agent \in ClosedResponderSet
          /\ \E p \in 1..(Len(calls) - 1) :
                /\ calls[p].op = "route"
                /\ calls[p].message = turn_log[1].customer_message
                /\ calls[p].selected_agent = turn_log[1].routed_agent
                /\ calls[p + 1].op = "respond"
                /\ calls[p + 1].agent = turn_log[1].routed_agent
                /\ calls[p + 1].message = turn_log[1].customer_message
                /\ calls[p + 1].response = turn_log[1].agent_response
                /\ calls[p + 1].tool_calls = turn_log[1].tool_calls

C6_Witness ==
    /\ turn_log # <<>>
    /\ turn_log[1].routed_agent = "CloserAgent"
    /\ Len(response_history["CloserAgent"]) = 1

\* the route calls made so far, in order
RouteCalls == SelectSeq(calls, LAMBDA e : e.op = "route")

\* C7: the routing history has one entry per route call, the k-th entry holds
\* the message and the responder id of the k-th call, and a step only appends.
C7_RoutingHistoryAppendOnly ==
    /\ [](/\ Len(routing_history) = Len(RouteCalls)
          /\ \A k \in 1..Len(routing_history) :
                /\ routing_history[k].message = RouteCalls[k].message
                /\ routing_history[k].selected_agent = RouteCalls[k].selected_agent)
    /\ [][/\ Len(routing_history') >= Len(routing_history)
          /\ SubSeq(routing_history', 1, Len(routing_history)) = routing_history]_vars

C7_Witness ==
    /\ Len(routing_history) = 2
    /\ routing_history[1].message # routing_history[2].message
    /\ routing_history[1].message # lower(routing_history[1].message)

\* the calls a step adds
NewCalls == SubSeq(calls', Len(calls) + 1, Len(calls'))

\* the entries the respond calls on responder a among the events es must log
RespondEntries(es, a) ==
    LET mine == SelectSeq(es, LAMBDA e : e.op = "respond" /\ e.agent = a) IN
    [k \in 1..Len(mine) |->
        [input_message |-> mine[k].message, response |-> mine[k].response,
         tool_calls |-> mine[k].tool_calls]]

\* C8: a respond call appends one entry (message, reply, tool calls) to the
\* history of the responder called and changes neither the other responders'
\* histories nor the routing history.
C8_RespondAppendsOwnHistory ==
    [][/\ \A a \in ClosedResponderSet :
             response_history'[a] = response_history[a] \o RespondEntries(NewCalls, a)
       /\ (\A k \in 1..Len(NewCalls) : NewCalls[k].op = "respond")
             => routing_history' = routing_history]_vars

C8_Witness ==
    /\ Len(response_history["CloserAgent"]) = 1
    /\ \A a \in ClosedResponderSet \ {"CloserAgent"} : response_history[a] = <<>>
    /\ routing_history = <<>>

AllCorrect(logs) == Misrouted(logs) = {}

\* C9 as stated: for every batch whose turns are all routed to their expected
\* responder, routing_accuracy is 100 and misrouting_count is 0.
C9_Original ==
    (scored >= 0 /\ AllCorrect(ScoredBatch))
        => /\ required_metrics.routing_accuracy = Ratio(100, 1)
           /\ required_metrics.misrouting_count = 0

\* C9 amended: the same for every batch that has at least one turn.
C9_AllCorrectIs100 ==
    (scored >= 0 /\ AllCorrect(ScoredBatch) /\ TurnPositions(ScoredBatch) # {})
        => /\ required_metrics.routing_accuracy = Ratio(100, 1)
           /\ required_metrics.misrouting_count = 0

C9_Witness ==
    /\ scored = 2
    /\ AllCorrect(ScoredBatch)
    /\ Cardinality(TurnPositions(ScoredBatch)) = 2
    /\ required_metrics.routing_accuracy = Ratio(100, 1)

KnownCategories ==
    {"refund_status", "refund_policy", "flight_search", "baggage_policy",
     "complaint", "booking_details"}

CloserNotLast(logs) ==
    {p \in TurnPositions(logs) :
        /\ TurnAt(logs, p).routed_agent = "CloserAgent"
        /\ p[2] # Len(logs[p[1]].turns)}

\* 100 * n / d, and 0 when d is 0
PercentOf(n, d) == IF d = 0 THEN [num |-> 0, den |-> 1] ELSE Ratio(100 * n, d)

\* C11: the flow violations of a batch are its turns routed to CloserAgent
\* that are not the last turn of their conversation, also when a conversation
\* holds two equal turn records; flow_adherence is the percentage of the
\* other turns.
C11_FlowViolations ==
    scored >= 0 =>
        LET total == Cardinality(TurnPositions(ScoredBatch))
            violations == Cardinality(CloserNotLast(ScoredBatch))
        IN  /\ required_counters(ScoredBatch).flow_violations = violations
            /\ required_metrics.flow_adherence = PercentOf(total - violations, total)
            /\ (total > 0 /\ violations = 0) => required_metrics.flow_adherence = Ratio(100, 1)
            /\ violations > 0 => RLess(required_metrics.flow_adherence, Ratio(100, 1))

\* the emitted tool calls of a batch, by conversation, turn and place in the
\* turn's list (a turn without a list emits none)
ToolCallPositions(logs) ==
    UNION {{<<p[1], p[2], j>> : j \in 1..Len(get(TurnAt(logs, p), "tool_calls", <<>>))} :
              p \in TurnPositions(logs)}

ToolCallAt(logs, q) == logs[q[1]].turns[q[2]].tool_calls[q[3]]

HasActionAndParams(tool_call) ==
    "action" \in DOMAIN tool_call /\ "params" \in DOMAIN tool_call

WellFormedCalls(logs) ==
    {q \in ToolCallPositions(logs) : HasActionAndParams(ToolCallAt(logs, q))}

AllCallsComplete(logs) ==
    \A q \in ToolCallPositions(logs) :
        /\ HasActionAndParams(ToolCallAt(logs, q))
        /\ ToolCallAt(logs, q).action # ""

\* C12 as stated: tool_call_correctness is 100 for every batch whose emitted
\* tool calls all have a non-empty action and a parameter mapping.
C12_Original ==
    (scored >= 0 /\ AllCallsComplete(ScoredBatch))
        => required_metrics.tool_call_correctness = Ratio(100, 1)

\* C12 amended: the same for every batch that emits at least one tool call;
\* tool_call_correctness is the percentage of the emitted tool calls that
\* hold both an action and a parameter mapping, and 0 when none is emitted.
C12_ToolCallCorrectness ==
    scored >= 0 =>
        /\ (AllCallsComplete(ScoredBatch) /\ ToolCallPositions(ScoredBatch) # {})
              => required_metrics.tool_call_correctness = Ratio(100, 1)
        /\ required_metrics.tool_call_correctness =
              PercentOf(Cardinality(WellFormedCalls(ScoredBatch)),
                        Cardinality(ToolCallPositions(ScoredBatch)))

C12_Witness ==
    /\ scored >= 0
    /\ Cardinality(ToolCallPositions(ScoredBatch)) >= 2
    /\ AllCallsComplete(ScoredBatch)
    /\ required_metrics.tool_call_correctness = Ratio(100, 1)

EndCallMarker == <<"<","E","N","D","_","C","A","L","L",">">>

StartsWith(s, w) == Len(s) >= Len(w) /\ SubSeq(s, 1, Len(w)) = w
EndsWith(s, w) == Len(s) >= Len(w) /\ SubSeq(s, Len(s) - Len(w) + 1, Len(s)) = w

CloserTurns(logs) ==
    {p \in TurnPositions(logs) : TurnAt(logs, p).routed_agent = "CloserAgent"}

\* C13: the termination-marker check follows the policy configuration: a
\* batch whose Closer replies all carry the marker at the start has
\* end_call_adherence 100 under the baseline configuration and 0 under the
\* configuration that places the marker at the end.
C13_MarkerCheckConfigAware ==
    (/\ scored >= 0
     /\ CloserTurns(ScoredBatch) # {}
     /\ \A p \in CloserTurns(ScoredBatch) :
            StartsWith(TurnAt(ScoredBatch, p).agent_response, EndCallMarker))
        => required_metrics.end_call_adherence =
               IF policy_version = "v0" THEN Ratio(100, 1) ELSE Ratio(0, 1)

Zero == [num |-> 0, den |-> 1]

\* C14: calculate_all_metrics never raises for absent data, and every ratio
\* whose denominator is zero is reported as 0: without turns, without
\* conversations, without tool calls (also when a turn carries no tool-call
\* list) and without a turn routed to CloserAgent.
C14_NeverRaises ==
    scored >= 0 =>
        /\ error = "none"
        /\ DOMAIN report = {"required_metrics", "creative_metrics", "summary"}
        /\ TurnPositions(ScoredBatch) = {} =>
              /\ required_metrics.routing_accuracy = Zero
              /\ required_metrics.flow_adherence = Zero
        /\ ToolCallPositions(ScoredBatch) = {} => required_metrics.tool_call_correctness = Zero
        /\ CloserTurns(ScoredBatch) = {} => required_metrics.end_call_adherence = Zero
        /\ ScoredBatch = <<>> => \A key \in DOMAIN report.creative_metrics :
                                    report.creative_metrics[key] = Zero

CloserReplies ==
    {i \in 1..Len(calls) : calls[i].op = "respond" /\ calls[i].agent = "CloserAgent"}

\* C20: whatever the message, CloserAgent returns one fixed reply that holds
\* the marker <END_CALL> and no tool call; the marker stands at the start of
\* the reply under the baseline policy and at its end under the improved one.
C20_CloserReply ==
    /\ \A i \in CloserReplies :
          /\ Contains(calls[i].response, EndCallMarker)
          /\ calls[i].tool_calls = <<>>
          /\ policy_version = "v0" => StartsWith(calls[i].response, EndCallMarker)
          /\ policy_version = "v1" => EndsWith(calls[i].response, EndCallMarker)
    /\ \A i, j \in CloserReplies : calls[i].response = calls[j].response

\* the turns of the conversations that are not in English whose reply holds
\* none of the indicator tokens hola, gracias, bonjour, merci, in any case
LanguageMismatches(logs) ==
    {p \in TurnPositions(logs) :
        /\ logs[p[1]].language # "english"
        /\ \A w \in {LanguageWords[i] : i \in 1..Len(LanguageWords)} :
              ~ContainsCI(TurnAt(logs, p).agent_response, w)}

\* C16: language_consistency_score is 100 * (1 - m / T), T the turns of the
\* batch and m the turns of its non-English conversations whose reply holds
\* no indicator token; it lies between 0 and 100.
C16_LanguageConsistency ==
    (scored >= 0 /\ error = "none" /\ TurnPositions(ScoredBatch) # {}) =>
        LET T == Cardinality(TurnPositions(ScoredBatch))
            m == Cardinality(LanguageMismatches(ScoredBatch))
            score == creative_metrics.language_consistency_score
        IN  /\ score = Ratio(100 * (T - m), T)
            /\ ~RLess(score, Ratio(0, 1))
            /\ ~RLess(Ratio(100, 1), score)

\* the categories the responder served in the conversation
CategoriesServed(conv, agent) ==
    {conv.turns[k].category : k \in {j \in 1..Len(conv.turns) : conv.turns[j].routed_agent = agent}}

\* the pairs <<c, agent>>: in conversation c the responder served more than
\* one distinct category
OverlapPairs(logs) ==
    {q \in (1..Len(logs)) \X AgentIds : Cardinality(CategoriesServed(logs[q[1]], q[2])) > 1}

OverlapConversations(logs) == {q[1] : q \in OverlapPairs(logs)}

\* C17 as stated: agent_overlap_score is the number of conversations in which
\* some responder served more than one distinct category.
C17_Original ==
    (scored >= 0 /\ error = "none") =>
        creative_metrics.agent_overlap_score =
            Ratio(Cardinality(OverlapConversations(ScoredBatch)), 1)

\* C17 amended: agent_overlap_score is the number of pairs (conversation,
\* responder) in which the responder served more than one distinct category,
\* divided by the number of conversations, and 0 for the empty batch.
C17_OverlapPerConversation ==
    (scored >= 0 /\ error = "none") =>
        creative_metrics.agent_overlap_score =
            IF ScoredBatch = <<>> THEN Zero
            ELSE Ratio(Cardinality(OverlapPairs(ScoredBatch)), Len(ScoredBatch))

C17_Witness ==
    /\ scored = 1
    /\ error = "none"
    /\ Cardinality(OverlapPairs(ScoredBatch)) = 2
    /\ creative_metrics.agent_overlap_score = Ratio(2, 1)

\* the tool calls of a conversation (a turn without a list has none)
ToolCallCount(conv) ==
    Cardinality(ToolCallPositions(<<conv>>))

\* max(0, 1 - |c - t/2| / max(t/2, 1)) for t turns and c tool calls, with
\* numerator and denominator doubled
Efficiency(t, c) ==
    LET d == IF t > 2 THEN t ELSE 2
        gap == IF 2 * c >= t THEN 2 * c - t ELSE t - 2 * c
    IN  IF gap >= d THEN Zero ELSE Ratio(d - gap, d)

\* the sum of Efficiency over the first n conversations
RECURSIVE EfficiencySum(_, _)
EfficiencySum(logs, n) ==
    IF n = 0 THEN Zero
    ELSE LET e == Efficiency(Len(logs[n].turns), ToolCallCount(logs[n]))
             rest == EfficiencySum(logs, n - 1)
         IN  Ratio(rest.num * e.den + e.num * rest.den, rest.den * e.den)

\* a float and the number n / d differ by less than 2^-40: the float is n / d
\* up to the rounding of the few float operations that computed it
NearRatio(f, r) ==
    LET g == float_of_quotient(r.num, r.den)
        gap == IF float_less(f, g) THEN float_sub(g, f) ELSE float_sub(f, g)
    IN  float_less(gap, [m |-> <<1>>, e |-> 0 - 40])

\* C18: the tool efficiency of a conversation with t turns and c tool calls
\* is max(0, 1 - |c - t/2| / max(t/2, 1)), which lies in [0, 1] and is 1
\* exactly when c = t/2; tool_efficiency_score is the mean over the
\* conversations of the batch.
C18_ToolEfficiency ==
    (scored >= 1) =>
        /\ error = "none"
        /\ LET total == EfficiencySum(ScoredBatch, scored)
               score == creative_metrics.tool_efficiency_score
           IN  /\ NearRatio(score, Ratio(total.num, total.den * scored))
               /\ ~ float_less(FloatOne, score)
               /\ scored = 1 =>
                     (score = FloatOne
                         <=> 2 * ToolCallCount(ScoredBatch[1]) = Len(ScoredBatch[1].turns))

\* the issues a report must list: one for each of the four conditions that
\* holds of the metrics of that report
IssuesDue(rep) ==
    LET r == rep.required_metrics
        c == rep.creative_metrics
    IN  {issue \in {"Low routing accuracy", "Tool call issues", "END_CALL placement issues",
                    "Agent responsibility overlaps"} :
            \/ issue = "Low routing accuracy" /\ r.routing_accuracy.num < 80 * r.routing_accuracy.den
            \/ issue = "Tool call issues"
                  /\ r.tool_call_correctness.num < 90 * r.tool_call_correctness.den
            \/ issue = "END_CALL placement issues"
                  /\ r.end_call_adherence.num < 100 * r.end_call_adherence.den
            \/ issue = "Agent responsibility overlaps"
                  /\ 2 * c.agent_overlap_score.num > c.agent_overlap_score.den}

Returned == scored >= 0 /\ error = "none"

\* C19: the issue list of a returned summary holds one issue for each of the
\* four conditions that holds of the metrics of the same report (routing
\* accuracy < 80, tool-call correctness < 90, termination adherence < 100,
\* overlap score > 0.5) and nothing else.
C19_IssuesOfSameCall ==
    Returned =>
        LET issues == report.summary.key_issues IN
        /\ {issues[i] : i \in 1..Len(issues)} = IssuesDue(report)
        /\ Len(issues) = Cardinality(IssuesDue(report))
        /\ report.required_metrics = required_metrics
        /\ report.creative_metrics = creative_metrics

\* a second report whose issue list differs from the one the dicts of the
\* first call give: the overlap issue is raised by the conversation added
\* after the first call
C19_Witness ==
    /\ Returned
    /\ scored = 2
    /\ report.summary.key_issues = <<"Low routing accuracy", "Tool call issues",
                                     "END_CALL placement issues">>
    /\ report.required_metrics.routing_accuracy = Ratio(50, 1)
    /\ report.creative_metrics.agent_overlap_score = Ratio(1, 2)

\* MetricsCalculator() followed by add_conversation_log of each conversation
\* of logs and one calculate_all_metrics(): the report it returns
fresh_report(logs) ==
    LET required == _calculate_required_metrics(logs)
        creative == _calculate_creative_metrics(logs)
    IN  [required_metrics |-> required,
         creative_metrics |-> creative,
         summary |-> _generate_summary(logs, required, creative)]

\* the conversations of logs, added in the order p
Reordered(logs, p) == [i \in 1..Len(logs) |-> logs[p[i]]]

\* C15: the report is a stateless function of the batch: whatever calls came
\* before, a returned report equals the report of a fresh calculator given the
\* conversations added so far (so a second call in a row returns it again),
\* and the report of a fresh calculator given the same conversations in any
\* other order.
C15_StatelessReport ==
    Returned =>
        /\ report = fresh_report(ScoredBatch)
        /\ \A p \in Permutations(1..scored) :
              fresh_report(Reordered(ScoredBatch, p)) = report

\* the call_llm and route_message calls made so far
LLMCalls == {k \in 1..Len(calls) : calls[k].op \in {"call_llm", "route_message"}}

\* C21: a failure of the completion request or of parsing its result never
\* leaves call_llm: the call returns the fixed apology string after its one
\* request, and route_message then returns SearchAgent; whatever the service
\* does, route_message returns a member of the closed responder set.
C21_FailureAbsorbed ==
    /\ error = "none"
    /\ \A k \in LLMCalls :
          /\ calls[k].posts = 1
          /\ calls[k].service.failure # "none" =>
                /\ calls[k].raised = "none"
                /\ calls[k].response = Apology
                /\ calls[k].op = "route_message" => calls[k].selected_agent = "SearchAgent"
          /\ calls[k].op = "route_message" => calls[k].selected_agent \in ClosedResponderSet

\* the body of the reply was not JSON and route_message fell back to SearchAgent
C21_Witness ==
    \E k \in LLMCalls :
        /\ calls[k].op = "route_message"
        /\ calls[k].service.failure = "json"
        /\ calls[k].response = Apology
        /\ calls[k].selected_agent = "SearchAgent"
        /\ llm_reply = Apology

\* C22: every transcript the runner hands to the metrics engine has a
\* non-empty turns list whose k-th record has turn index k; the records are
\* in the order of the customer turns they answer.
C22_TurnIndices ==
    /\ \A c \in 1..Len(conversation_logs) :
          LET t == conversation_logs[c].turns IN
          /\ Len(t) >= 1
          /\ \A k \in 1..Len(t) : t[k].turn_id = k
    /\ (pc \in {"loop", "done"} /\ conv_i >= 1) =>
          LET t == conversation_logs[conv_i].turns IN
          /\ Len(t) = Len(conversation)
          /\ \A k \in 1..Len(t) : t[k].customer_message = conversation[k].message

\* a transcript of three turns was handed over
C22_Witness ==
    /\ Len(conversation_logs) >= 1
    /\ Len(conversation_logs[1].turns) = 3
    /\ conversation_logs[1].turns[3].turn_id = 3
    /\ conversation_logs[1].turns[3].customer_message = conversation[3].message

\* the turn records of the conversations run so far, those of the
\* conversation under way last
TurnsRun ==
    LET visited == visited_turns(eval_logs) IN
    [k \in 1..Len(visited) |-> visited[k].turn] \o (IF pc = "turns" THEN turns ELSE <<>>)

\* C23: processing is sequential.  The routing history holds one entry per
\* turn processed, those of conversation i before those of conversation i + 1
\* and in turn order within a conversation; the calls alternate, the router's
\* decision for a turn first and then the reply of the responder it chose;
\* the metrics are computed once all conversations have been added.
C23_Sequential ==
    /\ \A c \in 1..Len(eval_logs) : eval_logs[c].conversation_id = c
    /\ conversation_logs = eval_logs
    /\ Len(routing_history) = Len(TurnsRun)
    /\ \A k \in 1..Len(TurnsRun) :
          /\ routing_history[k].message = TurnsRun[k].customer_message
          /\ routing_history[k].selected_agent = TurnsRun[k].routed_agent
    /\ Len(calls) = 2 * Len(TurnsRun)
    /\ \A k \in 1..Len(TurnsRun) :
          /\ calls[2 * k - 1].op = "route"
          /\ calls[2 * k - 1].message = TurnsRun[k].customer_message
          /\ calls[2 * k].op = "respond"
          /\ calls[2 * k].agent = calls[2 * k - 1].selected_agent
          /\ calls[2 * k].message = TurnsRun[k].customer_message
    /\ scored >= 0 =>
          /\ Len(conversation_logs) = num_conversations
          /\ scored = num_conversations
          /\ pc \in {"done", "crashed"}

\* two conversations with different messages were run and then scored
C23_Witness ==
    /\ pc = "done"
    /\ scored = 2
    /\ Len(routing_history) = 6
    /\ eval_logs[1].scenario_type = "complaint"
    /\ eval_logs[2].scenario_type = "refund_status"
    /\ routing_history[1].message = complaint_messages[3]
    /\ routing_history[4].message = refund_status_messages[1]

\* the respond calls made so far on responder a
RespondCalls(a) == {k \in 1..Len(calls) : calls[k].op = "respond" /\ calls[k].agent = a}

RefundStatusCall(tool_calls) ==
    /\ Len(tool_calls) = 1
    /\ tool_calls[1].action = "refund_status"
    /\ DOMAIN tool_calls[1].params = {"booking_id"}

SearchFlightsCall ==
    [action |-> "search_flights",
     params |-> [origin |-> "BLR", destination |-> "DEL", date |-> "today",
                 class |-> "economy"]]

FlightSearchKeywords == { <<"s","e","a","r","c","h">>, <<"f","i","n","d">>, <<"f","l","i","g","h","t">> }

\* the first-match chain of the Search responder, status being the test of
\* its first branch
SearchChain(status(_)) ==
    \A k \in RespondCalls("SearchAgent") :
        LET m == calls[k].message
            t == calls[k].tool_calls
        IN  IF status(m) THEN RefundStatusCall(t)
            ELSE IF MatchesAny(m, FlightSearchKeywords) THEN t = <<SearchFlightsCall>>
            ELSE t = <<>>

HasRefundStatus(m) == ContainsCI(m, <<"r","e","f","u","n","d"," ","s","t","a","t","u","s">>)
HasRefundStatusOrBookingId(m) ==
    ContainsCI(m, <<"r","e","f","u","n","d"," ","s","t","a","t","u","s">>) \/ ContainsCI(m, <<"b","o","o","k","i","n","g"," ","i","d">>)

\* C24 as stated: a message with the phrase 'refund status' yields one
\* refund_status{booking_id} call; otherwise a message with 'search', 'find'
\* or 'flight' yields one search_flights call with the fixed parameters;
\* otherwise the reply has no tool call.
C24_Original == SearchChain(HasRefundStatus)

\* C24 as amended: the first branch is taken by a message with the phrase
\* 'refund status' or the phrase 'booking id'.
C24_SearchChain == SearchChain(HasRefundStatusOrBookingId)

\* a message with 'booking id' and a flight-search keyword but not 'refund
\* status' got the one refund_status call
C24_Witness ==
    \E k \in RespondCalls("SearchAgent") :
        /\ ~HasRefundStatus(calls[k].message)
        /\ ContainsCI(calls[k].message, <<"b","o","o","k","i","n","g"," ","i","d">>)
        /\ MatchesAny(calls[k].message, FlightSearchKeywords)
        /\ RefundStatusCall(calls[k].tool_calls)

PolicyTextPhrases == { <<"b","a","g","g","a","g","e">>, <<"a","l","l","o","w","a","n","c","e">>, <<"r","e","f","u","n","d"," ","p","o","l","i","c","y">> }

\* C25: on a message with 'refund status' and none of 'baggage', 'allowance',
\* 'refund policy' the Policy responder returns one refund_status call, the
\* very tool-call list the Search responder returns for that message; on a
\* message with a baggage or refund-policy phrase the Policy responder returns
\* no tool call, whatever else the message contains.
C25_DuplicateRefundStatus ==
    \A k \in RespondCalls("PolicyAgent") :
        LET m == calls[k].message
            t == calls[k].tool_calls
        IN  /\ (HasRefundStatus(m) /\ ~MatchesAny(m, PolicyTextPhrases)) =>
                  /\ RefundStatusCall(t)
                  /\ \A j \in RespondCalls("SearchAgent") :
                        calls[j].message = m /\ calls[j].tool_calls = t
            /\ MatchesAny(m, PolicyTextPhrases) => t = <<>>

\* both responders were asked about a refund status and returned the call
\* for booking 789
C25_Witness ==
    \E k \in RespondCalls("PolicyAgent"), j \in RespondCalls("SearchAgent") :
        /\ HasRefundStatus(calls[k].message)
        /\ calls[k].tool_calls =
              <<[action |-> "refund_status", params |-> [booking_id |-> 789]]>>
        /\ calls[j].tool_calls = calls[k].tool_calls

\* the respond calls made so far
AllRespondCalls == {k \in 1..Len(calls) : calls[k].op = "respond"}

HasDigit(m) == \E i \in 1..Len(m) : IsDigit(m[i])

\* n is the number the first contiguous digit run of m denotes
IsFirstDigitRun(m, n) ==
    \E b \in 1..Len(m), e \in 1..Len(m) :
        /\ b <= e
        /\ \A i \in 1..(b - 1) : ~IsDigit(m[i])
        /\ \A i \in b..e : IsDigit(m[i])
        /\ e = Len(m) \/ ~IsDigit(m[e + 1])
        /\ n = int_of(SubSeq(m, b, e))

\* C26: no responder raises, and a tool call with a booking_id parameter
\* carries the number of the first contiguous digit run of the message, or
\* 12345 when the message has no digit.
C26_BookingIdExtraction ==
    /\ error = "none"
    /\ \A k \in AllRespondCalls :
          \A q \in 1..Len(calls[k].tool_calls) :
              LET tool_call == calls[k].tool_calls[q] IN
              "booking_id" \in DOMAIN tool_call.params =>
                  IF HasDigit(calls[k].message)
                  THEN IsFirstDigitRun(calls[k].message, tool_call.params.booking_id)
                  ELSE tool_call.params.booking_id = 12345

GenerateCalls == {k \in 1..Len(calls) : calls[k].op = "generate_conversation"}

ScenarioCategories ==
    {conversation_scenarios[s].category : s \in 1..Len(conversation_scenarios)}

\* what generate_conversation returns carries one scenario's category (the
\* requested one when it names a scenario) and the requested language
CategoryAndLanguage(e) ==
    /\ \E category \in ScenarioCategories :
          /\ e.scenario_type \in ScenarioCategories => category = e.scenario_type
          /\ \A k \in 1..Len(e.returned) : e.returned[k].category = category
    /\ \A k \in 1..Len(e.returned) : e.returned[k].language = e.language

\* C27: generate_conversation returns between 4 and 6 turns, all with the
\* scenario's category and the requested language.
C27_FourToSixTurns ==
    \A k \in GenerateCalls :
        /\ Len(calls[k].returned) \in 4..6
        /\ CategoryAndLanguage(calls[k])

\* no simulator message contains a termination keyword and no turn of the
\* run went to CloserAgent; a finished run reports end_call_adherence 0 and
\* the issue 'END_CALL placement issues'
NeverCloser ==
    /\ \A m \in SimulatorMessages : ~MatchesAny(m, Rule1)
    /\ \A k \in 1..Len(routing_history) : routing_history[k].selected_agent # "CloserAgent"
    /\ \A c \in 1..Len(conversation_logs) :
          \A k \in 1..Len(conversation_logs[c].turns) :
              conversation_logs[c].turns[k].routed_agent # "CloserAgent"
    /\ pc = "done" =>
          /\ report.required_metrics.end_call_adherence = Zero
          /\ \E i \in 1..Len(report.summary.key_issues) :
                report.summary.key_issues[i] = "END_CALL placement issues"

\* C28 as stated: in every run over simulator conversations no turn is routed
\* to CloserAgent, end_call_adherence is 0, flow_adherence is 100 and
\* 'END_CALL placement issues' is in the issue list.
C28_Original ==
    /\ NeverCloser
    /\ pc = "done" => report.required_metrics.flow_adherence = Ratio(100, 1)

\* C28 as amended: flow_adherence is 100 in every run of at least one
\* conversation, and 0 in the run of no conversation.
C28_CloserNeverInvoked ==
    /\ NeverCloser
    /\ pc = "done" =>
          report.required_metrics.flow_adherence =
              (IF num_conversations >= 1 THEN Ratio(100, 1) ELSE Zero)

\* a run of one conversation finished with the three turns scored
C28_Witness ==
    /\ pc = "done"
    /\ num_conversations = 1
    /\ report.summary.total_turns = 3
    /\ report.required_metrics.flow_adherence = Ratio(100, 1)
    /\ report.required_metrics.end_call_adherence = Zero

RECURSIVE SumOver(_, _)
SumOver(f, S) ==
    IF S = {} THEN 0
    ELSE LET a == CHOOSE x \in S : TRUE IN f[a] + SumOver(f, S \ {a})

\* C29: after any sequence of processed turns the routing history has as many
\* entries as the five response histories together and as there are turns
\* processed, and a responder's history has one entry per turn record routed
\* to that responder.
C29_HistoryLengths ==
    /\ Len(routing_history) = Len(TurnsRun)
    /\ Len(routing_history) =
          SumOver([a \in ClosedResponderSet |-> Len(response_history[a])],
                  ClosedResponderSet)
    /\ \A a \in ClosedResponderSet :
          Len(response_history[a]) =
              Cardinality({k \in 1..Len(TurnsRun) : TurnsRun[k].routed_agent = a})

\* three turns processed, two answered by SearchAgent and one by BookingAgent
C29_Witness ==
    /\ Len(TurnsRun) = 3
    /\ Len(routing_history) = 3
    /\ Len(response_history["SearchAgent"]) = 2
    /\ Len(response_history["BookingAgent"]) = 1

\* C30: a respond call returns at most one tool call, and a returned tool call
\* has an 'action' and a 'params' key; so in a batch of transcripts of the
\* runner there are no more tool calls than turns, and tool_call_correctness
\* is 100 when a tool call was emitted and 0 when none was.
C30_AtMostOneWholeCall ==
    /\ \A k \in AllRespondCalls :
          /\ Len(calls[k].tool_calls) <= 1
          /\ \A q \in 1..Len(calls[k].tool_calls) :
                {"action", "params"} \subseteq DOMAIN calls[k].tool_calls[q]
    /\ pc = "done" =>
          LET emitted == Cardinality(ToolCallPositions(conversation_logs)) IN
          /\ emitted <= Cardinality(TurnPositions(conversation_logs))
          /\ report.required_metrics.tool_call_correctness =
                (IF emitted >= 1 THEN Ratio(100, 1) ELSE Zero)

\* a run whose responders emitted two tool calls in three turns was scored
C30_Witness ==
    /\ pc = "done"
    /\ Cardinality(ToolCallPositions(conversation_logs)) = 2
    /\ Cardinality(TurnPositions(conversation_logs)) = 3
    /\ report.required_metrics.tool_call_correctness = Ratio(100, 1)
    /\ \E k \in AllRespondCalls : Len(calls[k].tool_calls) = 1

====
